---- MODULE Spec2Model ----
(***************************************************************************)
(* WebCrawlApp: the question-driven crawl and assembly engine.             *)
(*                                                                         *)
(*   Spec     one SmartNavigator session (app/navigator.py)                *)
(*   SpecAsm  one ContentAssembler.assemble_content call (app/assembly.py) *)
(*                                                                         *)
(* Scores are kept in hundredths (1.0 is 100).  A text is a sequence of    *)
(* tokens; a fingerprint is the set of the bit positions that are set, so  *)
(* the fingerprint 0 is the empty set.                                     *)
(***************************************************************************)
EXTENDS Integers, Sequences, FiniteSets, TLC

VARIABLES
    \* ---- SmartNavigator
    pc,              \* position of navigate(): idle, loop, fetch, yield, done, crashed
    link_queue,      \* self.link_queue, the heapq list
    visited_urls,    \* self.visited_urls
    stats,           \* self.stats (NavigationStats)
    simhash_cache,   \* self.simhash_cache: url -> fingerprint
    robots_cache,    \* self.robots_cache: origin -> unread | none | a parser state
    candidate,       \* the candidate popped by the running iteration
    result,          \* the page returned by _fetch_page for it
    requests,        \* client.get calls issued for the running candidate
    clock,           \* time.time() - stats.start_time, in seconds
    config,          \* the CrawlConfig passed to navigate
    settings,        \* self.settings
    question_keywords,
    start_url,
    world,           \* the site: what its robots.txt says and whether it can be read
    fetch_calls,     \* history: the URLs _fetch_page was called with, in order
    outcomes,        \* history: how the fetch of each of them ended
    yielded,         \* history: the URLs yielded to the caller, in order
    robots_asked,    \* history: the URLs _check_robots_txt was called with
    robots_reads,    \* history: the origins rp.read() was called for, in order
    enqueued,        \* history: the candidates pushed onto the queue, in order
    batch,           \* history: the last batch of _add_to_queue, sorted, and what it pushed
    considered,      \* history: every candidate handed to _add_to_queue
    exit_reason,     \* history: why the loop ended
    navigation_result,  \* what get_navigation_result returned
    filter_hashes,     \* history: the fingerprints _filter_duplicate_content computed
    \* ---- ContentAssembler
    apc,             \* position of assemble_content
    content_blocks,  \* the list of blocks passed in (object ids)
    planning_result, \* the PlanningResult passed in
    max_blocks,
    char_budget,     \* self.settings.char_budget
    store,           \* the ContentBlock objects: object id -> block
    deduplicated,
    scored_blocks,
    coverage_blocks,
    budgeted_blocks,
    assembly_result,
    runs,            \* history: the results of the calls that returned, by value
    citations,       \* the citations that Step 6 of assemble_content prepared
    \* ---- QuestionPlanner
    ppc,             \* position of plan_question: ready, planned, raised
    question,        \* the question, as the sequence of its words
    plan_result,     \* the PlanningResult returned
    rpc,             \* position of the registry's user: open, returned
    adapters,        \* registry._adapters, in the order of the dict
    best_adapter,    \* what get_best_adapter returned
    cpc,             \* position of the configuration: ready, settings, config, failed
    crawl_values,    \* the values passed to the constructor
    constructed,     \* the Settings or CrawlConfig that was built
    bpc,             \* position of create_content_block: ready, created, failed
    block_input,     \* its arguments and the adapter's config
    created_block,   \* the ContentBlock returned
    vpc,             \* position of the coverage comparison: ready, verified, calculated
    coverage_input,  \* the blocks and the required capabilities given to both
    extractor_coverage,  \* what _verify_capability_coverage returned
    assembler_coverage   \* what _calculate_coverage returned

navVars == <<pc, link_queue, visited_urls, stats, simhash_cache, robots_cache,
             candidate, result, requests, clock, config, settings,
             question_keywords, start_url, world, fetch_calls, outcomes,
             yielded, robots_asked, robots_reads, enqueued, batch, considered, exit_reason,
             navigation_result, filter_hashes>>
asmVars == <<apc, content_blocks, planning_result, max_blocks, char_budget, store,
             deduplicated, scored_blocks, coverage_blocks, budgeted_blocks,
             assembly_result, runs, citations>>
planVars == <<ppc, question, plan_result>>
regVars == <<rpc, adapters, best_adapter>>
cfgVars == <<cpc, crawl_values, constructed>>
blkVars == <<bpc, block_input, created_block>>
covVars == <<vpc, coverage_input, extractor_coverage, assembler_coverage>>
unitVars == <<regVars, cfgVars, blkVars, covVars>>

vars == <<navVars, asmVars, planVars, unitVars>>

Min(a, b) == IF a < b THEN a ELSE b
Max(a, b) == IF a > b THEN a ELSE b

RECURSIVE SumSeq(_)
SumSeq(s) == IF s = <<>> THEN 0 ELSE Head(s) + SumSeq(Tail(s))

(***************************************************************************)
(* Text utilities (app/util.py)                                            *)
(***************************************************************************)
HashBits == 64

\* The vocabulary of the model.  "API" differs from "api" in case only, "the"
\* is a stop word and "42" is not matched by the word pattern.
Tokens == {"api", "API", "endpoint", "request", "response", "auth", "docs",
           "guide", "link", "token", "contact", "the", "42"}

Lower(t) == IF t = "API" THEN "api" ELSE t

\* re.findall(r'\b[a-zA-Z]{2,}\b', ...): the tokens that are words
IsWord(t) == t # "42"

\* the stop words that occur in the vocabulary
StopWords == {"the"}

KeepsToken(t) == IsWord(t) /\ Lower(t) \notin StopWords

\* preprocess_text: lower-cased words, stop words removed, order kept
preprocess_text(text) ==
    LET kept == SelectSeq(text, KeepsToken)
    IN  [i \in 1..Len(kept) |-> Lower(kept[i])]

WordSet(text) == {preprocess_text(text)[i] : i \in 1..Len(preprocess_text(text))}

\* bin(int(md5(word).hexdigest(), 16))[2:].zfill(128)[:64]: the positions of
\* the '1' characters among the first 64 of the word's MD5 digest
MD5Bits(w) ==
    CASE w = "api" -> {0, 4, 6, 9, 11, 12, 13, 15, 16, 18, 21, 23, 26, 28, 29, 30, 32, 33, 35, 39, 42, 45, 46, 49, 53, 57, 58, 59, 60, 61, 63}
      [] w = "endpoint" -> {0, 2, 4, 5, 7, 9, 10, 13, 15, 16, 17, 19, 20, 23, 27, 28, 30, 31, 32, 34, 37, 39, 40, 41, 42, 43, 44, 45, 49, 51, 52, 53, 54, 55, 57, 61}
      [] w = "request" -> {3, 9, 11, 13, 14, 15, 18, 19, 20, 22, 23, 24, 29, 30, 31, 34, 35, 36, 37, 39, 42, 44, 45, 46, 47, 48, 50, 53, 55, 56, 58, 62, 63}
      [] w = "response" -> {0, 1, 3, 7, 8, 9, 10, 11, 12, 13, 16, 20, 21, 22, 24, 26, 28, 29, 30, 31, 34, 35, 37, 38, 40, 43, 46, 47, 49, 50, 51, 52, 54, 55, 56, 57, 58}
      [] w = "auth" -> {0, 1, 2, 3, 4, 6, 9, 11, 14, 15, 16, 18, 19, 20, 23, 27, 28, 29, 32, 33, 36, 37, 43, 44, 46, 47, 49, 50, 51, 52, 57, 58, 61, 62}
      [] w = "docs" -> {0, 1, 2, 6, 7, 8, 9, 10, 14, 16, 18, 20, 23, 24, 26, 27, 28, 29, 30, 31, 32, 33, 35, 36, 40, 45, 47, 49, 50, 53, 54, 56, 58, 59}
      [] w = "guide" -> {0, 2, 8, 9, 14, 15, 16, 19, 23, 24, 25, 27, 28, 29, 33, 36, 39, 40, 41, 45, 49, 56, 57, 58, 59, 60, 61}
      [] w = "link" -> {2, 4, 6, 10, 11, 17, 20, 22, 27, 30, 31, 33, 36, 41, 45, 47, 49, 50, 52, 53, 56, 57, 60, 61, 63}
      [] w = "token" -> {0, 3, 5, 8, 10, 16, 20, 21, 23, 24, 26, 31, 32, 33, 34, 35, 36, 37, 38, 40, 41, 44, 46, 47, 48, 50, 51, 53, 54, 56, 57, 58, 60}
      [] w = "contact" -> {2, 4, 5, 6, 7, 8, 12, 14, 17, 18, 20, 22, 23, 24, 25, 26, 27, 30, 31, 35, 36, 37, 38, 39, 42, 43, 44, 46, 47, 48, 49, 51, 53, 54, 57, 58, 59, 60, 62, 63}
      [] OTHER -> {}

\* calculate_simhash: every word votes +1 on the bits of its digest that are
\* set and -1 on the others; a bit of the fingerprint is set when its vote is
\* positive.  A text without words has the fingerprint 0.
calculate_simhash(text) ==
    LET words == preprocess_text(text)
        Vote(i) == 2 * Cardinality({k \in 1..Len(words) : i \in MD5Bits(words[k])})
                   - Len(words)
    IN  IF words = <<>> THEN {}
        ELSE {i \in 0..(HashBits - 1) : Vote(i) > 0}

\* calculate_similarity_threshold: Hamming distance within the threshold; a
\* zero fingerprint is similar to nothing
calculate_similarity_threshold(simhash1, simhash2, threshold) ==
    IF simhash1 = {} \/ simhash2 = {} THEN FALSE
    ELSE Cardinality((simhash1 \ simhash2) \cup (simhash2 \ simhash1)) <= threshold

\* calculate_content_similarity: the Jaccard similarity of the word sets, as
\* the fraction <<intersection, union>>; 0.0 is <<0, 1>>
calculate_content_similarity(text1, text2) ==
    LET words1 == WordSet(text1)
        words2 == WordSet(text2)
    IN  IF text1 = <<>> \/ text2 = <<>> THEN <<0, 1>>
        ELSE IF words1 = {} \/ words2 = {} THEN <<0, 1>>
        ELSE <<Cardinality(words1 \cap words2), Cardinality(words1 \cup words2)>>

(***************************************************************************)
(* URLs (app/util.py: normalize_url, should_follow_link)                   *)
(***************************************************************************)
Site == "https://example.com"
Other == "https://other.org"
Origins == {Site, Other}

Url(o, p) == [origin |-> o, path |-> p]
NoUrl == Url("", "")

\* the number of non-empty path segments
PathSegments(path) ==
    CASE path = "/docs" -> 1
      [] path = "/docs/api" -> 2
      [] path = "/docs/api/auth" -> 3
      [] path = "/contact" -> 1
      [] path = "/static/app" -> 2
      [] path = "/docs/a/b/c" -> 4
      [] path = "/api" -> 1
      [] OTHER -> 0

\* whether one of skip_patterns is found in the URL
MatchesSkipPattern(url) == url.path = "/static/app"

\* an href as written in a page: origin "" for a relative one, tracking for
\* a utm_* query parameter, fragment_only for "#..."
Href(o, p, t) == [origin |-> o, path |-> p, tracking |-> t, fragment_only |-> FALSE]
FragmentHref == [origin |-> "", path |-> "", tracking |-> FALSE, fragment_only |-> TRUE]

\* normalize_url: resolve against the base, drop tracking parameters
normalize_url(href, base_url) ==
    Url(IF href.origin = "" THEN base_url.origin ELSE href.origin, href.path)

\* should_follow_link without the comparison of scheme and netloc
should_follow_link_AnyOrigin(url, base_url, max_depth) ==
    /\ PathSegments(url.path) <= PathSegments(base_url.path) + max_depth
    /\ ~MatchesSkipPattern(url)

should_follow_link(url, base_url, max_depth) ==
    /\ url.origin = base_url.origin
    /\ PathSegments(url.path) <= PathSegments(base_url.path) + max_depth
    /\ ~MatchesSkipPattern(url)

\* extract_url_keywords, for the fallback text of a link without any text
extract_url_keywords(url) ==
    CASE url.path = "/docs" -> <<"docs">>
      [] url.path = "/docs/api" -> <<"docs", "api">>
      [] url.path = "/docs/api/auth" -> <<"docs", "api", "auth">>
      [] url.path = "/contact" -> <<"contact">>
      [] url.path = "/api" -> <<"api">>
      [] OTHER -> <<>>

(***************************************************************************)
(* Bounds of the model and the inputs of a session                         *)
(***************************************************************************)
MaxPageBudget == 3
MaxDepth == 2

\* Settings.validate_global_timeout: the smallest global_timeout, in seconds
GlobalTimeout == 10

\* how long one request may take, in seconds
FetchSeconds == {0, 6}

SeedUrl == Url(Site, "/docs")

Link(h, text, title) == [href |-> h, text |-> text, title |-> title, parent_text |-> <<>>]

\* The pages a request may be answered with.
HubPage == <<
    Link(Href("", "/docs/api", FALSE), <<"API", "docs">>, <<>>),
    Link(Href("", "/docs/api/auth", TRUE), <<"auth">>, <<"token">>),
    Link(Href("", "/api", FALSE), <<"guide">>, <<>>),
    [href |-> FragmentHref, text |-> <<"docs">>, title |-> <<>>, parent_text |-> <<>>],
    Link(Href("", "/contact", FALSE), <<"contact">>, <<>>),
    Link(Href(Other, "/api", FALSE), <<"api">>, <<>>),
    Link(Href("", "/static/app", FALSE), <<"link">>, <<>>) >>
BackPage == <<
    Link(Href(Site, "/docs", FALSE), <<"docs">>, <<>>),
    Link(Href("", "/docs/api/auth", FALSE), <<"request", "token">>, <<>>),
    Link(Href("", "/docs/a/b/c", FALSE), <<"guide">>, <<>>),
    Link(Href("", "/docs/api", FALSE), <<>>, <<>>),
    Link(Href(Other, "/docs/api/auth", FALSE), <<"endpoint">>, <<>>),
    Link(Href("", "/contact", FALSE), <<"response">>, <<>>) >>
LeafPage == << >>
PageSet == {HubPage, BackPage, LeafPage}

\* len(content.encode('utf-8')) of a page
ContentLength(page) == 100 + 40 * Len(page)

\* What the link scorer (rank_bm25, or calculate_link_score without it) answers
\* for a candidate when the question has keywords, in hundredths.
ScorerAnswer(c) ==
    CASE c.text = <<"API", "docs">> -> 150
      [] c.text = <<"auth", "token">> -> 50
      [] c.text = <<"contact">> -> 5
      [] c.text = <<"api">> -> 150
      [] c.text = <<"link">> -> 50
      [] c.text = <<"docs">> -> 50
      [] c.text = <<"request", "token">> -> 50
      [] c.text = <<"guide">> -> 50
      [] c.text = <<"docs", "api">> -> 20
      [] c.text = <<"endpoint">> -> 150
      [] c.text = <<"response">> -> 150
      [] OTHER -> 0

\* What the site's robots.txt files disallow, and the origins whose robots.txt
\* cannot be read.
DisallowedUrls == {SeedUrl, Url(Site, "/docs/api/auth")}
\* how reading the robots.txt of the seed's origin ends: it is parsed, the
\* connection fails (urlopen raises URLError), or the server answers with an
\* HTTP error status
RobotsReads == {"parsed", "URLError", "HTTP403", "HTTP503"}
RobotsWorlds ==
    {[read |-> [o \in Origins |-> "parsed"], disallow |-> {}]}
    \cup {[read |-> [o \in Origins |-> IF o = Site THEN r ELSE "parsed"],
            disallow |-> DisallowedUrls] : r \in RobotsReads}

\* RobotFileParser.read: the state of the parser after the read; it raises
\* for a failed connection only
ParserAfterRead(read) ==
    CASE read = "parsed" -> "parser"
      [] read = "HTTP403" -> "disallow_all"
      [] read = "HTTP404" -> "allow_all"
      [] OTHER -> "unchecked"

\* RobotFileParser.can_fetch
can_fetch(parser, url) ==
    CASE parser = "disallow_all" -> FALSE
      [] parser = "allow_all" -> TRUE
      [] parser = "unchecked" -> FALSE
      [] OTHER -> url \notin world.disallow

(***************************************************************************)
(* LinkCandidate and the heapq priority queue (app/navigator.py)           *)
(***************************************************************************)
LinkCandidate(url, text, title, score, depth, parent_url) ==
    [url |-> url, text |-> text, title |-> title, score |-> score,
     depth |-> depth, parent_url |-> parent_url]

\* a comparison that ranks the lower score first
CandidateLt_LowestFirst(a, b) == a.score < b.score

\* LinkCandidate.__lt__: a higher score is a higher priority
CandidateLt(a, b) == a.score > b.score

\* heapq._siftdown(heap, 0, pos) for newitem, on a 1-based sequence
RECURSIVE heap_siftdown(_, _, _)
heap_siftdown(heap, pos, newitem) ==
    IF pos > 1 /\ CandidateLt(newitem, heap[pos \div 2])
    THEN heap_siftdown([heap EXCEPT ![pos] = heap[pos \div 2]], pos \div 2, newitem)
    ELSE [heap EXCEPT ![pos] = newitem]

heappush(heap, item) == heap_siftdown(Append(heap, item), Len(heap) + 1, item)

\* heapq._siftup: move the smaller child up until a leaf is reached, then sift
\* newitem down from there
RECURSIVE heap_siftup(_, _, _)
heap_siftup(heap, pos, newitem) ==
    LET left == 2 * pos
        right == 2 * pos + 1
        child == IF right <= Len(heap) /\ ~CandidateLt(heap[left], heap[right])
                 THEN right ELSE left
    IN  IF left <= Len(heap)
        THEN heap_siftup([heap EXCEPT ![pos] = heap[child]], child, newitem)
        ELSE heap_siftdown(heap, pos, newitem)

\* a pop that reads the root and leaves it in the heap
heappop_Peek(heap) == <<heap[1], heap>>

\* heapq.heappop: <<the item returned, the heap left>>
heappop(heap) ==
    LET lastelt == heap[Len(heap)]
        rest == SubSeq(heap, 1, Len(heap) - 1)
    IN  IF rest = <<>> THEN <<lastelt, rest>>
        ELSE <<rest[1], heap_siftup(rest, 1, lastelt)>>

(***************************************************************************)
(* SmartNavigator helpers                                                  *)
(***************************************************************************)
\* _check_robots_txt: [allowed, cache, read]; robots.txt is read when the
\* origin is not cached yet, and a read that raises is cached as "none"
check_robots_txt(url, cache) ==
    IF url.origin = "" THEN [allowed |-> FALSE, cache |-> cache, read |-> FALSE]
    ELSE LET o == url.origin
             c1 == IF cache[o] = "unread"
                   THEN [cache EXCEPT ![o] = IF world.read[o] = "URLError"
                                             THEN "none"
                                             ELSE ParserAfterRead(world.read[o])]
                   ELSE cache
         IN  [allowed |-> IF c1[o] = "none" THEN TRUE ELSE can_fetch(c1[o], url),
              cache |-> c1,
              read |-> cache[o] = "unread"]

\* the text of a link: its text and title, else its parent's text, else the
\* keywords of its URL
CombinedText(link, full_url) ==
    IF link.text \o link.title # <<>> THEN link.text \o link.title
    ELSE IF link.parent_text # <<>> THEN link.parent_text
    ELSE extract_url_keywords(full_url)

\* a link extraction that never looks at the visited set
LinkVisited_Never(full_url) == FALSE

\* full_url in self.visited_urls
LinkVisited(full_url) == full_url \in visited_urls

\* _extract_links: the loop over the links of a page, carrying the robots
\* cache; [candidates, cache, asked, reads]
RECURSIVE extract_links(_, _, _, _, _, _, _)
extract_links(links, base_url, depth, cache, asked, reads, acc) ==
    IF links = <<>>
    THEN [candidates |-> acc, cache |-> cache, asked |-> asked, reads |-> reads]
    ELSE
      LET link == Head(links)
          full_url == normalize_url(link.href, base_url)
          robots == check_robots_txt(full_url, cache)
          asked1 == asked \cup {full_url}
          reads1 == IF robots.read THEN Append(reads, full_url.origin) ELSE reads
      IN  IF link.href.fragment_only
          THEN extract_links(Tail(links), base_url, depth, cache, asked, reads, acc)
          ELSE IF LinkVisited(full_url)
          THEN extract_links(Tail(links), base_url, depth, cache, asked, reads, acc)
          ELSE IF ~robots.allowed
          THEN extract_links(Tail(links), base_url, depth, robots.cache,
                             asked1, reads1, acc)
          ELSE IF ~should_follow_link(full_url, base_url, settings.max_depth)
          THEN extract_links(Tail(links), base_url, depth, robots.cache,
                             asked1, reads1, acc)
          ELSE extract_links(Tail(links), base_url, depth, robots.cache,
                             asked1, reads1,
                             Append(acc, LinkCandidate(full_url,
                                                       CombinedText(link, full_url),
                                                       link.title, 0, depth, base_url)))

\* _update_link_scores: nothing is scored without candidates or keywords
update_link_scores(candidates, keywords) ==
    IF candidates = <<>> \/ keywords = <<>> THEN candidates
    ELSE [i \in 1..Len(candidates) |->
            [candidates[i] EXCEPT !.score = ScorerAnswer(candidates[i])]]

\* self.similarity_threshold
SimilarityThreshold == 3

IsDuplicateOfCached(hash, cache) ==
    \E u \in DOMAIN cache :
        calculate_similarity_threshold(hash, cache[u], SimilarityThreshold)

\* _filter_duplicate_content: [filtered, cache]
RECURSIVE filter_duplicate_content(_, _, _)
filter_duplicate_content(candidates, cache, filtered) ==
    IF candidates = <<>> THEN [filtered |-> filtered, cache |-> cache]
    ELSE
      LET c == Head(candidates)
          candidate_hash == calculate_simhash(c.text \o c.title)
      IN  IF IsDuplicateOfCached(candidate_hash, cache)
          THEN filter_duplicate_content(Tail(candidates), cache, filtered)
          ELSE filter_duplicate_content(
                  Tail(candidates),
                  [u \in DOMAIN cache \cup {c.url} |->
                      IF u = c.url THEN candidate_hash ELSE cache[u]],
                  Append(filtered, c))

\* list.sort(key=score, reverse=True): stable, highest score first
RECURSIVE InsertByScore(_, _)
InsertByScore(sorted, c) ==
    IF sorted = <<>> THEN <<c>>
    ELSE IF Head(sorted).score >= c.score
         THEN <<Head(sorted)>> \o InsertByScore(Tail(sorted), c)
         ELSE <<c>> \o sorted

RECURSIVE SortByScore(_)
SortByScore(candidates) ==
    IF candidates = <<>> THEN <<>>
    ELSE InsertByScore(SortByScore(SubSeq(candidates, 1, Len(candidates) - 1)),
                       candidates[Len(candidates)])

\* the minimum relevance threshold of _add_to_queue, 0.1
MinLinkScore == 10

\* a queue that admits a candidate whatever its score
ScoreAdmits_Any(c) == TRUE

\* if candidate.score >= 0.1
ScoreAdmits(c) == c.score >= MinLinkScore

\* _add_to_queue, after the sort: [queue, queued, pushed], pushed being the
\* candidates handed to heappush, in order
RECURSIVE add_sorted_to_queue(_, _, _, _, _)
add_sorted_to_queue(candidates, queue, queued, page_budget, pushed) ==
    IF candidates = <<>> \/ Len(queue) >= page_budget
    THEN [queue |-> queue, queued |-> queued, pushed |-> pushed]
    ELSE IF ScoreAdmits(Head(candidates))
         THEN add_sorted_to_queue(Tail(candidates), heappush(queue, Head(candidates)),
                                  queued + 1, page_budget,
                                  Append(pushed, Head(candidates)))
         ELSE add_sorted_to_queue(Tail(candidates), queue, queued, page_budget, pushed)

\* _add_to_queue without the sort
add_to_queue_Unsorted(candidates, queue, queued, page_budget) ==
    add_sorted_to_queue(candidates, queue, queued, page_budget, <<>>)

add_to_queue(candidates, queue, queued, page_budget) ==
    add_sorted_to_queue(SortByScore(candidates), queue, queued, page_budget, <<>>)

(***************************************************************************)
(* _fetch_page and its retry decorator                                     *)
(***************************************************************************)
\* how a request can fail: httpx.RequestError (a connection error),
\* httpx.TimeoutException, and the httpx.HTTPStatusError of raise_for_status
TransportErrors == {"RequestError", "TimeoutException"}
FetchErrors == TransportErrors \cup {"HTTPStatusError"}

\* a body that catches transport errors only
BodyCatches_TransportOnly(exc) == exc \in TransportErrors

\* "except Exception" in the body of _fetch_page: what it catches
BodyCatches(exc) == TRUE

\* @retry(stop=stop_after_attempt(3), retry=retry_if_exception_type(...))
StopAfterAttempt == 3
RetryIf(raised) == raised \in TransportErrors

NoResult == [ok |-> FALSE, content |-> <<>>, length |-> 0]

\* a body whose except clause does not count the failure
fetch_body_ErrorUncounted(outcome, page, st) ==
    IF outcome = "ok"
    THEN [raised |-> "none",
          value |-> [ok |-> TRUE, content |-> page, length |-> ContentLength(page)],
          stats |-> [st EXCEPT !.bytes_fetched = @ + ContentLength(page),
                               !.urls_visited = @ + 1]]
    ELSE [raised |-> "none", value |-> NoResult, stats |-> st]

\* the body of _fetch_page, one request: [raised, value, stats]
fetch_body(outcome, page, st) ==
    IF outcome = "ok"
    THEN [raised |-> "none",
          value |-> [ok |-> TRUE, content |-> page, length |-> ContentLength(page)],
          stats |-> [st EXCEPT !.bytes_fetched = @ + ContentLength(page),
                               !.urls_visited = @ + 1]]
    ELSE IF BodyCatches(outcome)
    THEN [raised |-> "none", value |-> NoResult,
          stats |-> [st EXCEPT !.errors = @ + 1]]
    ELSE [raised |-> outcome, value |-> NoResult, stats |-> st]

\* what the decorator does after an attempt: return the value, call the body
\* again, or give up and raise
RetryDecision(raised, attempt) ==
    IF raised = "none" THEN "return"
    ELSE IF RetryIf(raised) /\ attempt < StopAfterAttempt THEN "retry"
    ELSE "raise"

(***************************************************************************)
(* SmartNavigator.navigate                                                 *)
(***************************************************************************)
AsmOff ==
    /\ apc = "off"
    /\ content_blocks = <<>>
    /\ planning_result = <<>>
    /\ max_blocks = 0
    /\ char_budget = 0
    /\ store = <<>>
    /\ deduplicated = <<>>
    /\ scored_blocks = <<>>
    /\ coverage_blocks = <<>>
    /\ budgeted_blocks = <<>>
    /\ assembly_result = <<>>
    /\ runs = <<>>
    /\ citations = <<>>

\* no question is being planned
PlanOff ==
    /\ ppc = "off"
    /\ question = <<>>
    /\ plan_result = <<>>

AdapterTypes == {"html", "code_repo", "generic"}

\* what an adapter's can_handle does for the URL asked about: it raises, or
\* it returns a DetectionResult with this confidence, in hundredths
CanHandleOutcomes ==
    {[raises |-> TRUE, confidence |-> 0]}
        \cup {[raises |-> FALSE, confidence |-> c] : c \in {0, 50, 51, 90}}

NoAdapter == [adapter_type |-> "none", can_handle |-> [raises |-> TRUE, confidence |-> 0]]

\* no registry is in use
RegistryOff ==
    /\ rpc = "off"
    /\ adapters = <<>>
    /\ best_adapter = NoAdapter

NoConfig == [kind |-> "none"]

\* nothing is being configured
ConfigOff ==
    /\ cpc = "off"
    /\ crawl_values = NoConfig
    /\ constructed = NoConfig

NoBlock == [content_type |-> "none"]

\* no adapter is creating a block
AdapterOff ==
    /\ bpc = "off"
    /\ block_input = NoBlock
    /\ created_block = NoBlock

NoCoverage == [c \in {} |-> FALSE]

\* no coverage is being computed
CoverageOff ==
    /\ vpc = "off"
    /\ coverage_input = [blocks |-> <<>>, required_capabilities |-> <<>>]
    /\ extractor_coverage = NoCoverage
    /\ assembler_coverage = NoCoverage

\* the single units are not in use
UnitsOff == RegistryOff /\ ConfigOff /\ AdapterOff /\ CoverageOff

NoBatch == [sorted |-> <<>>, pushed |-> <<>>]

NoNavigationResult == [urls_to_visit |-> <<>>]

\* the state after SmartNavigator(settings) and __aenter__
NavInit ==
    /\ pc = "idle"
    /\ link_queue = <<>>
    /\ visited_urls = {}
    /\ stats = [urls_visited |-> 0, urls_queued |-> 0, bytes_fetched |-> 0,
                avg_score |-> 0, depth_reached |-> 0, errors |-> 0]
    /\ simhash_cache = [u \in {} |-> {}]
    /\ robots_cache = [o \in Origins |-> "unread"]
    /\ candidate = LinkCandidate(NoUrl, <<>>, <<>>, 0, 0, NoUrl)
    /\ result = NoResult
    /\ requests = 0
    /\ clock = 0
    /\ config \in [page_budget : 1..MaxPageBudget, max_depth : {0, MaxDepth},
                   global_timeout : {GlobalTimeout}]
    /\ settings \in [max_depth : 0..MaxDepth]
    /\ question_keywords \in {<<>>, <<"api", "auth">>}
    /\ start_url = SeedUrl
    /\ world \in RobotsWorlds
    /\ fetch_calls = <<>>
    /\ outcomes = <<>>
    /\ yielded = <<>>
    /\ robots_asked = {}
    /\ robots_reads = <<>>
    /\ enqueued = <<>>
    /\ batch = NoBatch
    /\ considered = {}
    /\ exit_reason = "none"
    /\ navigation_result = NoNavigationResult
    /\ filter_hashes = {}

Init == NavInit /\ AsmOff /\ PlanOff /\ UnitsOff

worldVars == <<config, settings, question_keywords, start_url, world>>

\* navigate, up to the loop: the seed is pushed with the highest priority
Navigate ==
    /\ pc = "idle"
    /\ link_queue' = heappush(link_queue,
                              LinkCandidate(start_url, <<>>, <<>>, 100, 0, NoUrl))
    /\ stats' = [stats EXCEPT !.urls_queued = @ + 1]
    /\ enqueued' = Append(enqueued, LinkCandidate(start_url, <<>>, <<>>, 100, 0, NoUrl))
    /\ pc' = "loop"
    /\ UNCHANGED <<filter_hashes, navigation_result, unitVars, planVars, asmVars, visited_urls, simhash_cache, robots_cache, candidate, result,
                   requests, clock, worldVars, fetch_calls, outcomes, yielded,
                   robots_asked, robots_reads, batch, considered, exit_reason>>

\* the loop condition with <= for <
LoopGuard_OffByOne == link_queue # <<>> /\ stats.urls_visited <= config.page_budget

\* a loop that never looks at the visited set
AlreadyVisited_Never(c) == FALSE

\* while self.link_queue and self.stats.urls_visited < config.page_budget
LoopGuard == link_queue # <<>> /\ stats.urls_visited < config.page_budget

\* a loop without the deadline check
TimeoutReached_Never == FALSE

\* self.stats.get_elapsed_time() > config.global_timeout
TimeoutReached == clock > config.global_timeout

\* if candidate.url in self.visited_urls: continue
AlreadyVisited(c) == c.url \in visited_urls

\* a loop that is also resumed while the generator is suspended at its yield
AtLoopHead_WhileYielding == pc \in {"loop", "yield"}

\* the generator is at the head of the while loop of navigate
AtLoopHead == pc = "loop"

LoopExit ==
    /\ AtLoopHead
    /\ ~LoopGuard
    /\ pc' = "done"
    /\ exit_reason' = IF link_queue = <<>> THEN "Completed" ELSE "BudgetExhausted"
    /\ UNCHANGED <<filter_hashes, navigation_result, unitVars, planVars, asmVars, link_queue, visited_urls, stats, simhash_cache, robots_cache,
                   candidate, result, requests, clock, worldVars, fetch_calls,
                   outcomes, yielded, robots_asked, robots_reads, enqueued, batch,
                   considered>>

TimeoutExit ==
    /\ AtLoopHead
    /\ LoopGuard
    /\ TimeoutReached
    /\ pc' = "done"
    /\ exit_reason' = "TimedOut"
    /\ UNCHANGED <<filter_hashes, navigation_result, unitVars, planVars, asmVars, link_queue, visited_urls, stats, simhash_cache, robots_cache,
                   candidate, result, requests, clock, worldVars, fetch_calls,
                   outcomes, yielded, robots_asked, robots_reads, enqueued, batch,
                   considered>>

\* a popped candidate whose URL was visited already is dropped
PopSkip ==
    /\ AtLoopHead
    /\ LoopGuard
    /\ ~TimeoutReached
    /\ AlreadyVisited(heappop(link_queue)[1])
    /\ link_queue' = heappop(link_queue)[2]
    /\ candidate' = heappop(link_queue)[1]
    /\ UNCHANGED <<filter_hashes, navigation_result, unitVars, planVars, asmVars, pc, visited_urls, stats, simhash_cache, robots_cache, result,
                   requests, clock, worldVars, fetch_calls, outcomes, yielded,
                   robots_asked, robots_reads, enqueued, batch, considered, exit_reason>>

\* the popped candidate is marked visited and _fetch_page is called with it
PopVisit ==
    /\ AtLoopHead
    /\ LoopGuard
    /\ ~TimeoutReached
    /\ ~AlreadyVisited(heappop(link_queue)[1])
    /\ link_queue' = heappop(link_queue)[2]
    /\ candidate' = heappop(link_queue)[1]
    /\ visited_urls' = visited_urls \cup {candidate'.url}
    /\ fetch_calls' = Append(fetch_calls, candidate'.url)
    /\ requests' = 0
    /\ result' = NoResult
    /\ pc' = "fetch"
    /\ UNCHANGED <<filter_hashes, navigation_result, unitVars, planVars, asmVars, stats, simhash_cache, robots_cache, clock, worldVars, outcomes,
                   yielded, robots_asked, robots_reads, enqueued, batch, considered, exit_reason>>

\* one attempt of _fetch_page for the candidate: the request is answered
\* with `outcome` after `seconds`
FetchAttempt(outcome, page, seconds) ==
    LET r == fetch_body(outcome, page, stats)
        decision == RetryDecision(r.raised, requests + 1)
        done == [url |-> candidate.url, outcome |-> outcome, requests |-> requests + 1]
    IN  /\ requests' = requests + 1
        /\ clock' = clock + seconds
        /\ IF decision = "retry"
           THEN /\ pc' = "fetch"
                /\ stats' = r.stats
                /\ UNCHANGED <<result, outcomes, yielded>>
           ELSE IF decision = "raise"
           THEN /\ pc' = "crashed"
                /\ stats' = r.stats
                /\ outcomes' = Append(outcomes, done)
                /\ UNCHANGED <<result, yielded>>
           ELSE IF r.value.ok
           THEN /\ pc' = "yield"
                /\ result' = r.value
                /\ stats' = [r.stats EXCEPT
                                !.depth_reached = Max(@, candidate.depth)]
                /\ outcomes' = Append(outcomes, done)
                /\ yielded' = Append(yielded, candidate.url)
           ELSE /\ pc' = "loop"
                /\ stats' = r.stats
                /\ outcomes' = Append(outcomes, done)
                /\ UNCHANGED <<result, yielded>>
        /\ UNCHANGED <<filter_hashes, navigation_result, unitVars, planVars, asmVars, link_queue, visited_urls, simhash_cache, robots_cache,
                       candidate, worldVars, fetch_calls, robots_asked, robots_reads, enqueued, batch, considered,
                       exit_reason>>

\* the request is answered with a page
FetchSucceeds ==
    \E page \in PageSet, seconds \in FetchSeconds :
        /\ pc = "fetch"
        /\ FetchAttempt("ok", page, seconds)

\* the request fails: no connection, a timeout, or an HTTP error status
FetchFails ==
    \E exc \in FetchErrors, seconds \in FetchSeconds :
        /\ pc = "fetch"
        /\ FetchAttempt(exc, <<>>, seconds)

\* links are also extracted from a page at the maximum depth
MayExtract_AtMaxDepth(c) == c.depth <= settings.max_depth

\* if candidate.depth < self.settings.max_depth
MayExtract(c) == c.depth < settings.max_depth

\* the rest of the iteration, once the caller resumes the generator: the
\* links of the page are extracted, scored, filtered and queued
ExtractAndQueue ==
    LET ex == IF MayExtract(candidate)
              THEN extract_links(result.content, candidate.url, candidate.depth + 1,
                                 robots_cache, robots_asked, robots_reads, <<>>)
              ELSE [candidates |-> <<>>, cache |-> robots_cache,
                    asked |-> robots_asked, reads |-> robots_reads]
        scored == update_link_scores(ex.candidates, question_keywords)
        f == IF ex.candidates # <<>>
             THEN filter_duplicate_content(scored, simhash_cache, <<>>)
             ELSE [filtered |-> <<>>, cache |-> simhash_cache]
        q == IF ex.candidates # <<>>
             THEN add_to_queue(f.filtered, link_queue, stats.urls_queued,
                               config.page_budget)
             ELSE [queue |-> link_queue, queued |-> stats.urls_queued, pushed |-> <<>>]
        scores == [i \in 1..Len(q.queue) |-> q.queue[i].score]
    IN  /\ pc = "yield"
        /\ robots_cache' = ex.cache
        /\ robots_asked' = ex.asked
        /\ robots_reads' = ex.reads
        /\ enqueued' = enqueued \o q.pushed
        /\ considered' = considered \cup {f.filtered[i] : i \in DOMAIN f.filtered}
        /\ batch' = IF ex.candidates # <<>>
                    THEN [sorted |-> SortByScore(f.filtered), pushed |-> q.pushed]
                    ELSE NoBatch
        /\ simhash_cache' = f.cache
        /\ filter_hashes' = filter_hashes \cup {calculate_simhash(scored[i].text \o scored[i].title) :
                                             i \in DOMAIN scored}
        /\ link_queue' = q.queue
        /\ stats' = [stats EXCEPT
                        !.urls_queued = q.queued,
                        !.avg_score = IF q.queue # <<>>
                                      THEN SumSeq(scores) \div Len(q.queue)
                                      ELSE @]
        /\ pc' = "loop"
        /\ UNCHANGED <<navigation_result, unitVars, planVars, asmVars, visited_urls, candidate, result, requests, clock, worldVars,
                       fetch_calls, outcomes, yielded, exit_reason>>

NavNext ==
    \/ Navigate
    \/ LoopExit
    \/ TimeoutExit
    \/ PopSkip
    \/ PopVisit
    \/ FetchSucceeds
    \/ FetchFails
    \/ ExtractAndQueue

Next == NavNext

Spec == Init /\ [][Next]_vars

\* the order of sorted() on the URLs of the model, as strings
UrlRank(url) ==
    (IF url.origin = Site THEN 0 ELSE 10)
    + (CASE url.path = "/api" -> 1
         [] url.path = "/contact" -> 2
         [] url.path = "/docs" -> 3
         [] url.path = "/docs/a/b/c" -> 4
         [] url.path = "/docs/api" -> 5
         [] url.path = "/docs/api/auth" -> 6
         [] url.path = "/static/app" -> 7
         [] OTHER -> 0)

\* sorted(self.visited_urls)
RECURSIVE SortedUrls(_)
SortedUrls(urls) ==
    IF urls = {} THEN <<>>
    ELSE LET first == CHOOSE u \in urls : \A v \in urls : UrlRank(u) <= UrlRank(v)
         IN  <<first>> \o SortedUrls(urls \ {first})

\* a lookup among every candidate the session ever enqueued
ScoreSource_Enqueued(queue, pushed) == pushed

\* for candidate in self.link_queue
ScoreSource(queue, pushed) == queue

\* the score of the first candidate of the list with this URL, else 0.0
ScoreIn(candidates, url) ==
    LET found == {i \in DOMAIN candidates : candidates[i].url = url}
    IN  IF found = {} THEN 0
        ELSE candidates[CHOOSE i \in found : \A j \in found : i <= j].score

\* get_navigation_result
get_navigation_result(visited, queue, pushed, queued) ==
    [urls_to_visit |-> SortedUrls(visited),
     url_scores |-> [u \in visited |-> ScoreIn(ScoreSource(queue, pushed), u)],
     total_links_found |-> queued,
     robots_allowed |-> TRUE]

\* navigator.get_navigation_result(), after the session
GetNavigationResult ==
    /\ pc = "done"
    /\ navigation_result = NoNavigationResult
    /\ navigation_result' = get_navigation_result(visited_urls, link_queue, enqueued,
                                                  stats.urls_queued)
    /\ UNCHANGED <<filter_hashes, unitVars, planVars, asmVars, pc, link_queue, visited_urls, stats,
                   simhash_cache, robots_cache, candidate, result, requests, clock,
                   worldVars, fetch_calls, outcomes, yielded, robots_asked,
                   robots_reads, enqueued, batch, considered, exit_reason>>

NextResult == NavNext \/ GetNavigationResult

SpecResult == Init /\ [][NextResult]_vars

(***************************************************************************)
(* ContentAssembler (app/assembly.py)                                      *)
(*                                                                         *)
(* A ContentBlock is an object: the lists hold object ids and `store` maps *)
(* an id to the block's fields, so that an in-place change of a block is   *)
(* seen through every list that holds it.  A content is its tokens and its *)
(* length in characters, len(content).                                     *)
(***************************************************************************)
MaxBlocks == 3

Capabilities == {"nav_graph", "code_map", "routes", "transcript", "section",
                 "api_spec", "manifest", "readme"}

\* content_to_capability; main_body and generic have no entry
ContentToCapability(content_type) ==
    CASE content_type = "section" -> "section"
      [] content_type = "nav_bar" -> "nav_graph"
      [] content_type = "code_map" -> "code_map"
      [] content_type = "api_spec" -> "api_spec"
      [] content_type = "transcript" -> "transcript"
      [] content_type = "route" -> "routes"
      [] content_type = "manifest" -> "manifest"
      [] content_type = "readme" -> "readme"
      [] OTHER -> "none"

\* capability_keywords of _estimate_capability_relevance
CapabilityKeywords(capability) ==
    CASE capability = "section" -> {"section", "content", "documentation"}
      [] capability = "nav_graph" -> {"navigation", "menu", "link"}
      [] capability = "code_map" -> {"code", "function", "class", "method"}
      [] capability = "api_spec" -> {"api", "endpoint", "request", "response"}
      [] capability = "transcript" -> {"transcript", "video", "audio"}
      [] capability = "routes" -> {"route", "path", "url"}
      [] capability = "manifest" -> {"manifest", "package", "dependency"}
      [] capability = "readme" -> {"readme", "guide", "instructions"}
      [] OTHER -> {}

Content(tokens, chars) == [tokens |-> tokens, chars |-> chars, ellipsis |-> FALSE]

\* keyword in content.lower(): no token of the vocabulary holds a keyword
\* other than itself, lower-cased
ContentHas(content, keyword) ==
    \E i \in DOMAIN content.tokens : Lower(content.tokens[i]) = keyword

\* content.lower().count(keyword)
ContentCount(content, keyword) ==
    Cardinality({i \in DOMAIN content.tokens : Lower(content.tokens[i]) = keyword})

\* keyword in str(url).lower()
UrlHas(url, keyword) ==
    CASE url = "https://example.com/docs/api" -> keyword \in {"docs", "api"}
      [] url = "https://example.com/guide" -> keyword \in {"guide"}
      [] url = "https://example.com/contact" -> keyword \in {"contact"}
      [] OTHER -> FALSE

NoMetadata == [k \in {} |-> 0]

Block(content_type, tokens, chars, url, metadata) ==
    [content_type |-> content_type, content |-> Content(tokens, chars), url |-> url,
     title |-> "", metadata |-> metadata, char_count |-> chars]

Quality(q) == [k \in {"quality_score"} |-> q]

\* The blocks an extraction may hand to the assembler.
BlockPool == {
    Block("section", <<"api", "endpoint", "docs", "guide", "link">>, 700,
          "https://example.com/docs/api", Quality(70)),
    Block("section", <<"API", "endpoint", "docs", "guide", "link", "token">>, 700,
          "https://example.com/guide", Quality(60)),
    Block("section", <<"api", "endpoint", "docs", "guide">>, 300,
          "https://example.com/guide", NoMetadata),
    Block("api_spec", <<"request", "response", "auth", "token">>, 800,
          "https://example.com/docs/api", Quality(90)),
    Block("nav_bar", <<"contact", "link", "the">>, 300,
          "https://example.com/contact", NoMetadata),
    Block("generic", <<"42">>, 900, "https://example.com/contact", Quality(40)),
    Block("main_body", <<"the", "42">>, 300, "https://example.com/guide", Quality(80)) }

Plan(required, scores, keywords) ==
    [required_capabilities |-> required, capability_scores |-> scores,
     keywords |-> keywords]

\* The planning results an assembly may be given.
PlanSet == {
    Plan(<<"api_spec">>, [c \in {"api_spec"} |-> 80], <<"api", "endpoint">>),
    Plan(<<"section", "nav_graph">>,
         [c \in {"section", "nav_graph"} |-> IF c = "section" THEN 50 ELSE 40],
         <<"docs">>),
    Plan(<<"readme">>, [c \in {"readme"} |-> 40], <<>>) }

\* Settings.validate_char_budget: the smallest char_budget, and a larger one
MinCharBudget == 1000
CharBudgets == {MinCharBudget, 1300}

SeqToSet(s) == {s[i] : i \in DOMAIN s}

\* a comparison that also rejects a similarity of exactly 0.8
SimilarityThresholdExceeded_Inclusive(similarity) == 5 * similarity[1] >= 4 * similarity[2]

\* similarity > 0.8
SimilarityThresholdExceeded(similarity) == 5 * similarity[1] > 4 * similarity[2]

\* _deduplicate_blocks: the loop, carrying unique_blocks and seen_hashes
RECURSIVE dedup_loop(_, _, _, _)
dedup_loop(blocks, h, unique_blocks, seen_hashes) ==
    IF blocks = <<>> THEN unique_blocks
    ELSE
      LET block == h[Head(blocks)]
          content_hash == calculate_simhash(block.content.tokens)
          is_duplicate ==
              \E i \in DOMAIN unique_blocks :
                  SimilarityThresholdExceeded(
                      calculate_content_similarity(block.content.tokens,
                                                   h[unique_blocks[i]].content.tokens))
      IN  IF content_hash \in seen_hashes
          THEN dedup_loop(Tail(blocks), h, unique_blocks, seen_hashes)
          ELSE IF is_duplicate
          THEN dedup_loop(Tail(blocks), h, unique_blocks, seen_hashes)
          ELSE dedup_loop(Tail(blocks), h, Append(unique_blocks, Head(blocks)),
                          seen_hashes \cup {content_hash})

deduplicate_blocks(blocks, h) ==
    IF Len(blocks) <= 1 THEN blocks ELSE dedup_loop(blocks, h, <<>>, {})

\* _calculate_keyword_score, in hundredths
calculate_keyword_score(content, keywords) ==
    LET matches == Cardinality({i \in DOMAIN keywords : ContentHas(content, keywords[i])})
        keyword_frequency ==
            SumSeq([i \in DOMAIN keywords |-> ContentCount(content, keywords[i])])
        frequency_bonus == Min(20, keyword_frequency * 5)
    IN  IF keywords = <<>> \/ content.chars = 0 THEN 0
        ELSE Min(100, (100 * matches) \div Len(keywords) + frequency_bonus)

\* _calculate_capability_score, in hundredths
calculate_capability_score(content_type, capability_scores) ==
    LET capability == ContentToCapability(content_type)
    IN  IF capability # "none" /\ capability \in DOMAIN capability_scores
        THEN capability_scores[capability]
        ELSE 0

\* _calculate_url_score, in hundredths
calculate_url_score(url, keywords) ==
    LET matches == Cardinality({i \in DOMAIN keywords : UrlHas(url, keywords[i])})
    IN  IF keywords = <<>> \/ url = "" THEN 0
        ELSE Min(100, (100 * matches) \div Len(keywords))

\* the default of metadata.get("quality_score", 0.5)
DefaultQuality == 50

\* a scoring that starts from the score an earlier call left on the block
ScoreMetadata_Accumulating(block, plan) ==
    LET base_score == IF "question_relevance_score" \in DOMAIN block.metadata
                      THEN block.metadata["question_relevance_score"]
                      ELSE IF "quality_score" \in DOMAIN block.metadata
                      THEN block.metadata["quality_score"] ELSE DefaultQuality
        keyword_score == calculate_keyword_score(block.content, plan.keywords)
        capability_score == calculate_capability_score(block.content_type,
                                                       plan.capability_scores)
        url_score == calculate_url_score(block.url, plan.keywords)
        total_score == 3 * base_score + 4 * keyword_score + 2 * capability_score
                       + url_score
        update == [k \in {"question_relevance_score", "keyword_score",
                          "capability_score", "url_score", "base_quality_score"} |->
                      CASE k = "question_relevance_score" -> total_score
                        [] k = "keyword_score" -> keyword_score
                        [] k = "capability_score" -> capability_score
                        [] k = "url_score" -> url_score
                        [] OTHER -> base_score]
    IN  update @@ block.metadata

\* the metadata _score_blocks_for_question attaches to one block; the total
\* 0.3 base + 0.4 keyword + 0.2 capability + 0.1 url is kept in thousandths
ScoreMetadata(block, plan) ==
    LET base_score == IF "quality_score" \in DOMAIN block.metadata
                      THEN block.metadata["quality_score"] ELSE DefaultQuality
        keyword_score == calculate_keyword_score(block.content, plan.keywords)
        capability_score == calculate_capability_score(block.content_type,
                                                       plan.capability_scores)
        url_score == calculate_url_score(block.url, plan.keywords)
        total_score == 3 * base_score + 4 * keyword_score + 2 * capability_score
                       + url_score
        update == [k \in {"question_relevance_score", "keyword_score",
                          "capability_score", "url_score", "base_quality_score"} |->
                      CASE k = "question_relevance_score" -> total_score
                        [] k = "keyword_score" -> keyword_score
                        [] k = "capability_score" -> capability_score
                        [] k = "url_score" -> url_score
                        [] OTHER -> base_score]
    IN  update @@ block.metadata

Relevance(h, id) ==
    IF "question_relevance_score" \in DOMAIN h[id].metadata
    THEN h[id].metadata["question_relevance_score"] ELSE 0

\* blocks.sort(key=question_relevance_score, reverse=True): stable
RECURSIVE InsertByRelevance(_, _, _)
InsertByRelevance(sorted, id, h) ==
    IF sorted = <<>> THEN <<id>>
    ELSE IF Relevance(h, Head(sorted)) >= Relevance(h, id)
         THEN <<Head(sorted)>> \o InsertByRelevance(Tail(sorted), id, h)
         ELSE <<id>> \o sorted

\* a scoring step that leaves the blocks in the order they came in
SortByRelevance_Unsorted(blocks, h) == blocks

RECURSIVE SortByRelevance(_, _)
SortByRelevance(blocks, h) ==
    IF blocks = <<>> THEN <<>>
    ELSE InsertByRelevance(SortByRelevance(SubSeq(blocks, 1, Len(blocks) - 1), h),
                           blocks[Len(blocks)], h)

\* _score_blocks_for_question: [store, blocks]; the metadata is attached to
\* the blocks themselves and the list is sorted in place
score_blocks_for_question(blocks, h, plan) ==
    LET h1 == [id \in DOMAIN h |->
                  IF id \in SeqToSet(blocks)
                  THEN [h[id] EXCEPT !.metadata = ScoreMetadata(h[id], plan)]
                  ELSE h[id]]
    IN  [store |-> h1, blocks |-> SortByRelevance(blocks, h1)]

\* _estimate_capability_relevance, in hundredths
estimate_capability_relevance(block, capability) ==
    LET keywords == CapabilityKeywords(capability)
        matches == Cardinality({k \in keywords : ContentHas(block.content, k)})
    IN  IF keywords = {} THEN 0 ELSE (100 * matches) \div Cardinality(keywords)

\* the minimum relevance threshold of _ensure_capability_coverage, 0.3
MinCapabilityRelevance == 30

\* `block not in final_blocks`: list membership compares the blocks' fields
BlockIn(id, list, h) == \E i \in DOMAIN list : h[list[i]] = h[id]

\* the search for best_block: [block, score], block 0 for None
RECURSIVE best_block_loop(_, _, _, _, _)
best_block_loop(blocks, final_blocks, h, capability, best) ==
    IF blocks = <<>> THEN best
    ELSE
      LET score == estimate_capability_relevance(h[Head(blocks)], capability)
      IN  IF ~BlockIn(Head(blocks), final_blocks, h)
          THEN best_block_loop(Tail(blocks), final_blocks, h, capability, best)
          ELSE IF score > best.score
          THEN best_block_loop(Tail(blocks), final_blocks, h, capability,
                               [block |-> Head(blocks), score |-> score])
          ELSE best_block_loop(Tail(blocks), final_blocks, h, capability, best)

\* the loop over required_capabilities that adds blocks for the missing ones
RECURSIVE coverage_loop(_, _, _, _, _)
coverage_loop(required, blocks, h, final_blocks, covered) ==
    IF required = <<>> THEN final_blocks
    ELSE
      LET capability == Head(required)
          best == best_block_loop(blocks, final_blocks, h, capability,
                                  [block |-> 0, score |-> 0])
      IN  IF capability \in covered
          THEN coverage_loop(Tail(required), blocks, h, final_blocks, covered)
          ELSE IF best.block # 0 /\ best.score > MinCapabilityRelevance
          THEN coverage_loop(Tail(required), blocks, h,
                             Append(final_blocks, best.block),
                             covered \cup {capability})
          ELSE coverage_loop(Tail(required), blocks, h, final_blocks, covered)

\* _ensure_capability_coverage
ensure_capability_coverage(blocks, h, required_capabilities) ==
    LET represented == {ContentToCapability(h[blocks[i]].content_type) :
                            i \in DOMAIN blocks} \ {"none"}
        covered == {c \in SeqToSet(required_capabilities) : c \in represented}
    IN  IF required_capabilities = <<>> THEN blocks
        ELSE coverage_loop(required_capabilities, blocks, h, blocks, covered)

\* "only if meaningful amount left": remaining_budget > 200
MinTruncationBudget == 200

\* content[:n]
SliceContent(content, n) ==
    IF n >= content.chars THEN content
    ELSE [tokens |-> SubSeq(content.tokens, 1, (Len(content.tokens) * n) \div content.chars),
          chars |-> Max(n, 0), ellipsis |-> FALSE]

\* content + "..."
WithEllipsis(content) == [content EXCEPT !.chars = @ + 3, !.ellipsis = TRUE]

\* a truncation that leaves no room for the ellipsis
TruncatedBlock_NoRoomForEllipsis(block, remaining_budget) ==
    LET truncated_content == WithEllipsis(SliceContent(block.content, remaining_budget))
    IN  [content_type |-> block.content_type,
         content |-> truncated_content,
         url |-> block.url,
         title |-> block.title,
         char_count |-> truncated_content.chars,
         metadata |-> [k \in {"truncated", "original_length"} |->
                          IF k = "truncated" THEN TRUE ELSE block.content.chars]
                      @@ block.metadata]

\* the truncated copy of a block that _apply_character_budget builds
TruncatedBlock(block, remaining_budget) ==
    LET truncated_content == WithEllipsis(SliceContent(block.content, remaining_budget - 3))
    IN  [content_type |-> block.content_type,
         content |-> truncated_content,
         url |-> block.url,
         title |-> block.title,
         char_count |-> truncated_content.chars,
         metadata |-> [k \in {"truncated", "original_length"} |->
                          IF k = "truncated" THEN TRUE ELSE block.content.chars]
                      @@ block.metadata]

\* _apply_character_budget: the loop; [selected, store]
RECURSIVE budget_loop(_, _, _, _, _)
budget_loop(blocks, h, budget, selected_blocks, total_chars) ==
    IF blocks = <<>> THEN [selected |-> selected_blocks, store |-> h]
    ELSE
      LET block == h[Head(blocks)]
          block_chars == block.content.chars
          remaining_budget == budget - total_chars
      IN  IF total_chars + block_chars <= budget
          THEN budget_loop(Tail(blocks), h, budget,
                           Append(selected_blocks, Head(blocks)),
                           total_chars + block_chars)
          ELSE IF remaining_budget > MinTruncationBudget
          THEN [selected |-> Append(selected_blocks, Len(h) + 1),
                store |-> Append(h, TruncatedBlock(block, remaining_budget))]
          ELSE [selected |-> selected_blocks, store |-> h]

apply_character_budget(blocks, h, budget) == budget_loop(blocks, h, budget, <<>>, 0)

\* the length of a citation's snippet
SnippetChars == 200

\* content[:n].strip(): the words of a content are spread evenly over its
\* characters, each followed by one blank, so a slice that ends on the last
\* character of a word's share ends with a blank, which strip() removes
StripSlice(content, n) ==
    LET slice == SliceContent(content, n)
    IN  IF n < content.chars /\ (Len(content.tokens) * n) % content.chars = 0
        THEN [slice EXCEPT !.chars = @ - 1]
        ELSE slice

\* the snippet of a block: content[:200].strip(), "..." added if
\* len(content) > 200
Snippet(content) ==
    [text |-> StripSlice(content, SnippetChars),
     ellipsis |-> content.chars > SnippetChars]

\* a loop that never finds a URL among the seen ones
CitedAlready_Never(url, seen_urls) == FALSE

\* if url in seen_urls: continue
CitedAlready(url, seen_urls) == url \in seen_urls

\* _prepare_citations: the loop, carrying citations and seen_urls
RECURSIVE citation_loop(_, _, _, _)
citation_loop(blocks, h, cites, seen_urls) ==
    IF blocks = <<>> THEN cites
    ELSE
      LET block == h[Head(blocks)]
          url == block.url
          citation == [url |-> block.url,
                       title |-> IF block.title # "" THEN <<block.title>>
                                 ELSE <<"Content from", url>>,
                       snippet |-> Snippet(block.content),
                       content_type |-> block.content_type]
      IN  IF CitedAlready(url, seen_urls)
          THEN citation_loop(Tail(blocks), h, cites, seen_urls)
          ELSE citation_loop(Tail(blocks), h, Append(cites, citation),
                             seen_urls \cup {url})

prepare_citations(blocks, h) == citation_loop(blocks, h, <<>>, {})

\* _calculate_coverage
calculate_coverage(blocks, h, required_capabilities) ==
    LET available_capabilities ==
            {ContentToCapability(h[blocks[i]].content_type) : i \in DOMAIN blocks}
            \ {"none"}
    IN  [c \in SeqToSet(required_capabilities) |-> c \in available_capabilities]

TotalChars(blocks, h) == SumSeq([i \in DOMAIN blocks |-> h[blocks[i]].content.chars])

\* _generate_diagnostics
generate_diagnostics(original_blocks, final_blocks, h, plan) ==
    [blocks_original |-> Len(original_blocks),
     blocks_final |-> Len(final_blocks),
     blocks_filtered |-> Len(original_blocks) - Len(final_blocks),
     total_bytes |-> TotalChars(final_blocks, h),
     avg_block_length |-> TotalChars(final_blocks, h) \div Max(1, Len(final_blocks)),
     capabilities_requested |-> Len(plan.required_capabilities),
     keywords_used |-> Len(plan.keywords)]

(***************************************************************************)
(* ContentAssembler.assemble_content, step by step                         *)
(***************************************************************************)
NavOff ==
    /\ pc = "off"
    /\ link_queue = <<>>
    /\ visited_urls = {}
    /\ stats = <<>>
    /\ simhash_cache = <<>>
    /\ robots_cache = <<>>
    /\ candidate = <<>>
    /\ result = <<>>
    /\ requests = 0
    /\ clock = 0
    /\ config = <<>>
    /\ settings = <<>>
    /\ question_keywords = <<>>
    /\ start_url = NoUrl
    /\ world = <<>>
    /\ fetch_calls = <<>>
    /\ outcomes = <<>>
    /\ yielded = <<>>
    /\ robots_asked = {}
    /\ robots_reads = <<>>
    /\ enqueued = <<>>
    /\ batch = <<>>
    /\ considered = {}
    /\ exit_reason = "none"
    /\ navigation_result = NoNavigationResult
    /\ filter_hashes = {}

\* the arguments of assemble_content and the settings of the assembler
AsmInit ==
    /\ apc = "start"
    /\ \E n \in 0..MaxBlocks :
          /\ store \in [1..n -> BlockPool]
          /\ content_blocks = [i \in 1..n |-> i]
    /\ planning_result \in PlanSet
    /\ max_blocks \in {0, 2}
    /\ char_budget \in CharBudgets
    /\ deduplicated = <<>>
    /\ scored_blocks = <<>>
    /\ coverage_blocks = <<>>
    /\ budgeted_blocks = <<>>
    /\ assembly_result = <<>>
    /\ runs = <<>>
    /\ citations = <<>>

InitAsm == AsmInit /\ NavOff /\ PlanOff /\ UnitsOff

asmInputs == <<content_blocks, planning_result, max_blocks, char_budget>>

\* Step 1: deduplicate
Deduplicate ==
    /\ apc = "start"
    /\ deduplicated' = deduplicate_blocks(content_blocks, store)
    /\ apc' = "deduplicated"
    /\ UNCHANGED <<unitVars, planVars, navVars, asmInputs, runs, citations, store, scored_blocks, coverage_blocks,
                   budgeted_blocks, assembly_result>>

\* Step 2: score and sort; the list sorted is the deduplicated list itself
ScoreBlocks ==
    LET scored == score_blocks_for_question(deduplicated, store, planning_result)
    IN  /\ apc = "deduplicated"
        /\ store' = scored.store
        /\ scored_blocks' = scored.blocks
        /\ deduplicated' = scored.blocks
        /\ apc' = "scored"
        /\ UNCHANGED <<unitVars, planVars, navVars, asmInputs, runs, citations, coverage_blocks, budgeted_blocks,
                       assembly_result>>

\* Step 3: capability coverage
EnsureCoverage ==
    /\ apc = "scored"
    /\ coverage_blocks' = ensure_capability_coverage(
                              scored_blocks, store, planning_result.required_capabilities)
    /\ apc' = "covered"
    /\ UNCHANGED <<unitVars, planVars, navVars, asmInputs, runs, citations, store, deduplicated, scored_blocks,
                   budgeted_blocks, assembly_result>>

\* Step 4: character budget
ApplyBudget ==
    LET budgeted == apply_character_budget(coverage_blocks, store, char_budget)
    IN  /\ apc = "covered"
        /\ budgeted_blocks' = budgeted.selected
        /\ store' = budgeted.store
        /\ apc' = "budgeted"
        /\ UNCHANGED <<unitVars, planVars, navVars, asmInputs, runs, citations, deduplicated, scored_blocks,
                       coverage_blocks, assembly_result>>

\* an AssemblyResult by value: the blocks as they are when it is returned
ResultValue(r, h) ==
    [selected_blocks |-> [i \in DOMAIN r.selected_blocks |-> h[r.selected_blocks[i]]],
     capability_coverage |-> r.capability_coverage,
     char_count |-> r.char_count,
     duplicates_removed |-> r.duplicates_removed]

\* Steps 5 to 7 and the result
Finish ==
    LET final_blocks == IF max_blocks # 0
                        THEN SubSeq(budgeted_blocks, 1, Min(max_blocks, Len(budgeted_blocks)))
                        ELSE budgeted_blocks
    IN  /\ apc = "budgeted"
        /\ assembly_result' =
              [selected_blocks |-> final_blocks,
               capability_coverage |->
                   calculate_coverage(final_blocks, store,
                                      planning_result.required_capabilities),
               assembly_stats |-> generate_diagnostics(content_blocks, final_blocks,
                                                       store, planning_result),
               char_count |-> TotalChars(final_blocks, store),
               duplicates_removed |-> Len(content_blocks) - Len(deduplicated)]
        /\ citations' = prepare_citations(final_blocks, store)
        /\ runs' = Append(runs, ResultValue(assembly_result', store))
        /\ apc' = "done"
        /\ UNCHANGED <<unitVars, planVars, navVars, asmInputs, store, deduplicated, scored_blocks,
                       coverage_blocks, budgeted_blocks>>

\* What a step inside the try block may raise: a TypeError (a quality_score
\* that is not a number reaches base_score * 0.3), a pydantic ValidationError
\* (the truncated ContentBlock or the AssemblyResult is rejected), or any
\* other error of a helper.
StepErrors == {"TypeError", "ValidationError", "RuntimeError"}

\* a handler that catches type errors only
Catches_TypeErrorOnly(exc) == exc = "TypeError"

\* except Exception as e: every error a step can raise derives from Exception
Catches(exc) == exc \in StepErrors

\* the AssemblyResult built in the except clause
ErrorResult(exc) ==
    [selected_blocks |-> <<>>,
     capability_coverage |-> [c \in {} |-> FALSE],
     assembly_stats |-> [k \in {"error"} |-> exc],
     char_count |-> 0,
     duplicates_removed |-> 0]

\* a step of the pipeline raises: the except clause returns the error result
StepRaises ==
    \E exc \in StepErrors :
        /\ apc \in {"start", "deduplicated", "scored", "covered", "budgeted"}
        /\ IF Catches(exc)
           THEN /\ assembly_result' = ErrorResult(exc)
                /\ apc' = "failed"
           ELSE /\ apc' = "raised"
                /\ UNCHANGED assembly_result
        /\ UNCHANGED <<unitVars, planVars, navVars, asmInputs, runs, citations, store, deduplicated, scored_blocks,
                       coverage_blocks, budgeted_blocks>>

NextAsm ==
    \/ Deduplicate
    \/ ScoreBlocks
    \/ EnsureCoverage
    \/ ApplyBudget
    \/ Finish
    \/ StepRaises

SpecAsm == InitAsm /\ [][NextAsm]_vars

\* the second call: assemble_content is called again with the list and the
\* block objects of the call that returned, the metadata it attached included
Rerun ==
    /\ apc = "done"
    /\ Len(runs) = 1
    /\ apc' = "start"
    /\ deduplicated' = <<>>
    /\ scored_blocks' = <<>>
    /\ coverage_blocks' = <<>>
    /\ budgeted_blocks' = <<>>
    /\ assembly_result' = <<>>
    /\ UNCHANGED <<unitVars, planVars, navVars, asmInputs, runs, store>>
    /\ citations' = <<>>

NextAgain ==
    \/ Deduplicate
    \/ ScoreBlocks
    \/ EnsureCoverage
    \/ ApplyBudget
    \/ Finish
    \/ Rerun

SpecAgain == InitAsm /\ [][NextAgain]_vars

(***************************************************************************)
(* ContentExtractor._process_blocks                                        *)
(***************************************************************************)
\* _calculate_content_hash: hash(content[:100] + str(len(content))); the
\* hashed key stands for its hash
calculate_content_hash(content) == <<SliceContent(content, 100), content.chars>>

\* ContentExtractor._deduplicate_blocks: the loop
RECURSIVE extractor_dedup_loop(_, _, _, _)
extractor_dedup_loop(blocks, h, unique_blocks, seen_hashes) ==
    IF blocks = <<>> THEN unique_blocks
    ELSE
      LET content_hash == calculate_content_hash(h[Head(blocks)].content)
      IN  IF content_hash \notin seen_hashes
          THEN extractor_dedup_loop(Tail(blocks), h, Append(unique_blocks, Head(blocks)),
                                    seen_hashes \cup {content_hash})
          ELSE extractor_dedup_loop(Tail(blocks), h, unique_blocks, seen_hashes)

extractor_deduplicate_blocks(blocks, h) ==
    IF Len(blocks) <= 1 THEN blocks ELSE extractor_dedup_loop(blocks, h, <<>>, {})

\* the default of metadata.get("quality_score", 0.5), and the two boosts
ExtractorDefaultQuality == 50
CapabilityBoost == 30
KeywordBoost == 10

\* the total_score of ContentExtractor._score_blocks_for_question, in hundredths
extractor_total_score(block, plan) ==
    LET base_score == IF "quality_score" \in DOMAIN block.metadata
                      THEN block.metadata["quality_score"] ELSE ExtractorDefaultQuality
        capability_boost ==
            IF block.content_type \in SeqToSet(plan.required_capabilities)
            THEN CapabilityBoost ELSE 0
        keyword_boost ==
            KeywordBoost * Cardinality({i \in DOMAIN plan.keywords :
                                           ContentHas(block.content, Lower(plan.keywords[i]))})
    IN  Min(100, base_score + capability_boost + keyword_boost)

\* ContentExtractor._score_blocks_for_question: [store, blocks]; the score is
\* written into the metadata of the blocks themselves
extractor_score_blocks_for_question(blocks, h, plan) ==
    LET h1 == [id \in DOMAIN h |->
                  IF id \in SeqToSet(blocks)
                  THEN [h[id] EXCEPT !.metadata =
                           [k \in {"question_relevance_score"} |->
                               extractor_total_score(h[id], plan)] @@ @]
                  ELSE h[id]]
    IN  [store |-> h1, blocks |-> SortByRelevance(blocks, h1)]

\* "only if meaningful amount left": remaining_budget > 100
ExtractorMinTruncationBudget == 100

\* ContentExtractor._apply_character_budget: the loop; [selected, store]. The
\* block that does not fit is cut by assigning to its content field.
RECURSIVE extractor_budget_loop(_, _, _, _, _)
extractor_budget_loop(blocks, h, budget, selected_blocks, total_chars) ==
    IF blocks = <<>> THEN [selected |-> selected_blocks, store |-> h]
    ELSE
      LET block == h[Head(blocks)]
          block_chars == block.content.chars
          remaining_budget == budget - total_chars
          truncated_content == WithEllipsis(SliceContent(block.content, remaining_budget))
      IN  IF total_chars + block_chars <= budget
          THEN extractor_budget_loop(Tail(blocks), h, budget,
                                     Append(selected_blocks, Head(blocks)),
                                     total_chars + block_chars)
          ELSE IF remaining_budget > ExtractorMinTruncationBudget
          THEN [selected |-> Append(selected_blocks, Head(blocks)),
                store |-> [h EXCEPT ![Head(blocks)].content = truncated_content]]
          ELSE [selected |-> selected_blocks, store |-> h]

extractor_apply_character_budget(blocks, h, budget) ==
    extractor_budget_loop(blocks, h, budget, <<>>, 0)

\* _process_blocks: deduplicate, score and sort, apply the character budget
ProcessBlocks ==
    LET deduped == extractor_deduplicate_blocks(content_blocks, store)
        scored == extractor_score_blocks_for_question(deduped, store, planning_result)
        budgeted == extractor_apply_character_budget(scored.blocks, scored.store,
                                                     char_budget)
    IN  /\ apc = "start"
        /\ IF content_blocks = <<>>
           THEN /\ budgeted_blocks' = <<>>
                /\ UNCHANGED <<store, deduplicated, scored_blocks>>
           ELSE /\ deduplicated' = scored.blocks
                /\ scored_blocks' = scored.blocks
                /\ budgeted_blocks' = budgeted.selected
                /\ store' = budgeted.store
        /\ apc' = "processed"
        /\ UNCHANGED <<unitVars, planVars, navVars, asmInputs, runs, citations, coverage_blocks, assembly_result>>

NextExt == ProcessBlocks

SpecExt == InitAsm /\ [][NextExt]_vars

(***************************************************************************)
(* QuestionPlanner.plan_question                                           *)
(***************************************************************************)
\* The words a question is made of, and the longest question of the model.
QuestionWords == {"how", "do", "to", "API", "code", "navigation", "why", "hi",
                  "guide", "token", "finding", "function"}
MaxWords == 3

\* self.capability_keywords, in the order of the dict: for each capability its
\* keywords and its patterns. A pattern \b(h1|h2)\b is [head |-> {h1, h2},
\* tail |-> {}], a pattern \b(h1|h2)\b.*\b(t1|t2)\b has tail {t1, t2}; an
\* alternative is the sequence of its words.
capability_keywords == <<
    [capability |-> "code_map",
     keywords |-> <<"code", "function", "class", "method", "implementation",
        "source", "repository", "repo", "github", "gitlab", "programming",
        "development", "coding", "script", "api", "endpoint", "service",
        "module", "package">>,
     patterns |-> <<
          [head |-> {<<"code">>, <<"function">>, <<"class">>, <<"method">>},
           tail |-> {}],
          [head |-> {<<"how", "to">>, <<"how", "does">>, <<"implement">>,
                    <<"write">>},
           tail |-> {"code", "function"}],
          [head |-> {<<"repository">>, <<"repo">>, <<"github">>, <<"gitlab">>},
           tail |-> {}],
          [head |-> {<<"programming">>, <<"development">>, <<"coding">>},
           tail |-> {}] >>],
    [capability |-> "routes",
     keywords |-> <<"route", "routing", "navigation", "url", "path",
        "endpoint", "link", "menu", "navigation", "site map", "structure",
        "page", "section", "directory", "folder", "hierarchy">>,
     patterns |-> <<
          [head |-> {<<"route">>, <<"routing">>, <<"navigation">>, <<"url">>,
                    <<"path">>},
           tail |-> {}],
          [head |-> {<<"how", "to">>, <<"where", "is">>, <<"navigate">>,
                    <<"find">>},
           tail |-> {"page", "section"}],
          [head |-> {<<"menu">>, <<"link">>, <<"structure">>, <<"hierarchy">>},
           tail |-> {}] >>],
    [capability |-> "nav_graph",
     keywords |-> <<"navigation", "navigate", "menu", "sidebar", "header",
        "footer", "breadcrumb", "site map", "structure", "layout",
        "interface", "ui", "user interface", "design", "find", "where",
        "locate", "access">>,
     patterns |-> <<
          [head |-> {<<"navigation">>, <<"menu">>, <<"sidebar">>,
                    <<"header">>, <<"footer">>},
           tail |-> {}],
          [head |-> {<<"how", "to">>, <<"where", "is">>, <<"navigate">>},
           tail |-> {"menu", "navigation"}],
          [head |-> {<<"interface">>, <<"ui">>, <<"layout">>, <<"design">>},
           tail |-> {}] >>],
    [capability |-> "transcript",
     keywords |-> <<"video", "transcript", "caption", "subtitle", "audio",
        "speech", "talk", "presentation", "tutorial", "lecture", "youtube",
        "vimeo", "watch", "listen", "hear">>,
     patterns |-> <<
          [head |-> {<<"video">>, <<"transcript">>, <<"caption">>,
                    <<"subtitle">>},
           tail |-> {}],
          [head |-> {<<"what", "does">>, <<"what", "is", "said">>,
                    <<"what", "is", "mentioned">>},
           tail |-> {"video", "audio"}],
          [head |-> {<<"youtube">>, <<"vimeo">>, <<"watch">>, <<"listen">>},
           tail |-> {}] >>],
    [capability |-> "section",
     keywords |-> <<"documentation", "guide", "tutorial", "help", "manual",
        "instructions", "steps", "how to", "explanation", "description",
        "article", "blog", "post", "content", "text", "information">>,
     patterns |-> <<
          [head |-> {<<"documentation">>, <<"guide">>, <<"tutorial">>,
                    <<"help">>, <<"manual">>},
           tail |-> {}],
          [head |-> {<<"how", "to">>, <<"what", "is">>, <<"explain">>,
                    <<"describe">>},
           tail |-> {}],
          [head |-> {<<"article">>, <<"blog">>, <<"post">>, <<"content">>,
                    <<"information">>},
           tail |-> {}] >>],
    [capability |-> "api_spec",
     keywords |-> <<"api", "endpoint", "request", "response", "parameter",
        "authentication", "authorization", "token", "key", "swagger",
        "openapi", "rest", "graphql", "soap">>,
     patterns |-> <<
          [head |-> {<<"api">>, <<"endpoint">>, <<"request">>, <<"response">>},
           tail |-> {}],
          [head |-> {<<"how", "to">>, <<"what", "is">>, <<"use">>, <<"call">>},
           tail |-> {"api", "endpoint"}],
          [head |-> {<<"swagger">>, <<"openapi">>, <<"rest">>, <<"graphql">>},
           tail |-> {}] >>],
    [capability |-> "manifest",
     keywords |-> <<"package", "dependency", "install", "requirements",
        "manifest", "config", "configuration", "setup", "environment",
        "version", "compatibility">>,
     patterns |-> <<
          [head |-> {<<"package">>, <<"dependency">>, <<"install">>,
                    <<"requirements">>},
           tail |-> {}],
          [head |-> {<<"how", "to">>, <<"what", "is">>, <<"setup">>,
                    <<"configure">>},
           tail |-> {"package", "dependency"}],
          [head |-> {<<"manifest">>, <<"config">>, <<"configuration">>},
           tail |-> {}] >>],
    [capability |-> "readme",
     keywords |-> <<"readme", "overview", "introduction", "getting started",
        "quick start", "setup", "installation", "usage", "example", "demo",
        "sample", "tutorial">>,
     patterns |-> <<
          [head |-> {<<"readme">>, <<"overview">>, <<"introduction">>,
                    <<"getting", "started">>},
           tail |-> {}],
          [head |-> {<<"what", "is">>, <<"explain">>, <<"describe">>},
           tail |-> {"project", "library", "tool"}],
          [head |-> {<<"setup">>, <<"installation">>, <<"usage">>,
                    <<"example">>},
           tail |-> {}] >>] >>

\* self.question_types, in the order of the dict; a pattern is the sequence of
\* its words
question_types == <<
    [type |-> "how_to",
     patterns |-> <<<<"how", "to">>, <<"how", "do">>, <<"how", "can">>,
        <<"how", "should">>, <<"steps", "to">>, <<"way", "to">>,
        <<"process", "to">>>>],
    [type |-> "what_is",
     patterns |-> <<<<"what", "is">>, <<"what", "are">>, <<"what", "does">>,
        <<"what", "do">>, <<"explain">>, <<"describe">>, <<"define">>,
        <<"meaning", "of">>>>],
    [type |-> "where_is",
     patterns |-> <<<<"where", "is">>, <<"where", "are">>,
        <<"where", "can">>, <<"where", "do">>, <<"find">>, <<"locate">>,
        <<"located">>, <<"position">>>>],
    [type |-> "why",
     patterns |-> <<<<"why">>, <<"reason">>, <<"purpose">>, <<"benefit">>,
        <<"advantage">>, <<"disadvantage">>, <<"pros">>, <<"cons">>>>],
    [type |-> "when",
     patterns |-> <<<<"when">>, <<"time">>, <<"schedule">>, <<"timeline">>,
        <<"deadline">>, <<"duration">>, <<"frequency">>>>] >>

\* the words of the vocabulary, lower-cased, that hold a word of a
\* question-type pattern, that end with one and that start with one
ContainsPairs == {<<"do", "do">>, <<"finding", "find">>, <<"how", "how">>,
    <<"to", "to">>, <<"token", "to">>, <<"why", "why">>}
EndsWithPairs == {<<"do", "do">>, <<"how", "how">>, <<"to", "to">>,
    <<"why", "why">>}
StartsWithPairs == {<<"do", "do">>, <<"finding", "find">>, <<"how", "how">>,
    <<"to", "to">>, <<"token", "to">>, <<"why", "why">>}

\* the words of the vocabulary that \b\w{3,}\b matches
LongWords == {"api", "code", "finding", "function", "guide", "how",
    "navigation", "token", "why"}

\* the stop words of _normalize_question and of _extract_keywords
NormalizeStopWords == {"the", "a", "an", "and", "or", "but", "in", "on", "at", "to",
                       "for", "of", "with", "by"}
KeywordStopWords == {
    "the", "and", "for", "are", "but", "not", "you", "all", "can", "had", "her",
    "was", "one", "our", "out", "day", "get", "has", "him", "his", "how", "its",
    "may", "new", "now", "old", "see", "two", "way", "who", "boy", "did", "man",
    "men", "put", "say", "she", "too", "use"}

\* _normalize_question: lower-case, drop the stop words
normalize_question(q) ==
    SelectSeq([i \in DOMAIN q |-> Lower(q[i])], LAMBDA w : w \notin NormalizeStopWords)

\* _extract_keywords: the words of three characters or more that are no stop
\* words, as a set
extract_keywords(q) ==
    ({q[i] : i \in DOMAIN q} \cap LongWords) \ KeywordStopWords

\* re.search(pattern, question) for a pattern of question_types: the pattern
\* is searched as a substring, so its first word may end a word of the
\* question and its last word may start one
SearchType(pattern, q) ==
    IF Len(pattern) = 1
    THEN \E i \in DOMAIN q : <<q[i], pattern[1]>> \in ContainsPairs
    ELSE \E i \in 1..(Len(q) - 1) :
            /\ <<q[i], pattern[1]>> \in EndsWithPairs
            /\ <<q[i + 1], pattern[2]>> \in StartsWithPairs

\* _classify_question_type: the first type, in the order of the dict, that
\* has a matching pattern
classify_question_type(q) ==
    LET matching == {n \in DOMAIN question_types :
                        \E k \in DOMAIN question_types[n].patterns :
                            SearchType(question_types[n].patterns[k], q)}
    IN  IF matching = {} THEN "general"
        ELSE question_types[CHOOSE n \in matching : \A m \in matching : n <= m].type

\* the positions of the last word of an occurrence of a phrase, as whole words
PhraseEnds(phrase, q) ==
    {i + Len(phrase) - 1 : i \in {i \in 1..(Len(q) - Len(phrase) + 1) :
                                     SubSeq(q, i, i + Len(phrase) - 1) = phrase}}

\* re.search(pattern, question, re.IGNORECASE) for a pattern of
\* capability_keywords
SearchPattern(pattern, q) ==
    \E phrase \in pattern.head : \E e \in PhraseEnds(phrase, q) :
        \/ pattern.tail = {}
        \/ \E j \in (e + 1)..Len(q) : q[j] \in pattern.tail

\* keyword_matches and pattern_matches of one capability
KeywordMatches(cfg, keywords) ==
    Cardinality({i \in DOMAIN cfg.keywords : cfg.keywords[i] \in keywords})
PatternMatches(cfg, q) ==
    Cardinality({i \in DOMAIN cfg.patterns : SearchPattern(cfg.patterns[i], q)})

\* the weights of _score_capabilities, in hundredths
PlannerKeywordWeight == 30
PlannerPatternWeight == 40
MultipleMatchBonus == 10

\* the score _score_capabilities gives one capability, in hundredths
score_capability(cfg, q, keywords) ==
    LET keyword_matches == KeywordMatches(cfg, keywords)
        pattern_matches == PatternMatches(cfg, q)
        score == PlannerKeywordWeight * keyword_matches
                 + PlannerPatternWeight * pattern_matches
        boosted == Min(score, 100)
                   + (IF keyword_matches > 1 THEN MultipleMatchBonus ELSE 0)
                   + (IF pattern_matches > 1 THEN MultipleMatchBonus ELSE 0)
    IN  IF keyword_matches > 0 \/ pattern_matches > 0 THEN Min(boosted, 100) ELSE score

PlannedCapabilities ==
    [i \in DOMAIN capability_keywords |-> capability_keywords[i].capability]

\* _score_capabilities
score_capabilities(q, keywords) ==
    [c \in SeqToSet(PlannedCapabilities) |->
        score_capability(
            capability_keywords[CHOOSE i \in DOMAIN capability_keywords :
                                    capability_keywords[i].capability = c],
            q, keywords)]

Weight(c, w) == [capability |-> c, weight |-> w]

\* _get_fallback_capabilities: capability and weight, in the order of the dict
get_fallback_capabilities(question_type) ==
    CASE question_type = "how_to" -> <<Weight("section", 60), Weight("readme", 40)>>
      [] question_type = "what_is" -> <<Weight("section", 70), Weight("readme", 30)>>
      [] question_type = "where_is" -> <<Weight("nav_graph", 50), Weight("routes", 50)>>
      [] question_type = "why" -> <<Weight("section", 80)>>
      [] question_type = "when" -> <<Weight("section", 60), Weight("manifest", 40)>>
      [] question_type = "general" -> <<Weight("section", 50), Weight("readme", 30)>>
      [] OTHER -> <<Weight("section", 50)>>

\* the threshold of plan_question: score > 0.3
RequiredThreshold == 30

\* a threshold that also admits a score of exactly 0.3
ScoreRequires_Inclusive(score) == score >= RequiredThreshold

\* if score > 0.3
ScoreRequires(score) == score > RequiredThreshold

\* a planner that never falls back
UseFallback_Never(required) == FALSE

\* if not required_capabilities
UseFallback(required) == required = <<>>

\* _calculate_confidence, in hundredths
calculate_confidence(capabilities, question_type, keyword_count) ==
    LET max_capability_score ==
            CHOOSE w \in {capabilities[i].weight : i \in DOMAIN capabilities} :
                \A i \in DOMAIN capabilities : capabilities[i].weight <= w
        type_boost == CASE question_type \in {"how_to", "what_is"} -> 10
                        [] question_type \in {"where_is", "why", "when"} -> 5
                        [] OTHER -> 0
        keyword_boost == Min(keyword_count * 2, 10)
        capability_boost == Min(Len(capabilities) * 5, 10)
    IN  IF capabilities = <<>> THEN 10
        ELSE Min(max_capability_score + type_boost + keyword_boost + capability_boost,
                 100)

\* plan_question, up to the construction of the PlanningResult
plan_question(q) ==
    LET normalized_question == normalize_question(q)
        keywords == extract_keywords(normalized_question)
        question_type == classify_question_type(normalized_question)
        capability_scores == score_capabilities(normalized_question, keywords)
        scored == SelectSeq([i \in DOMAIN PlannedCapabilities |->
                                Weight(PlannedCapabilities[i],
                                       capability_scores[PlannedCapabilities[i]])],
                            LAMBDA r : ScoreRequires(r.weight))
        required_capabilities == IF UseFallback(scored)
                                 THEN get_fallback_capabilities(question_type)
                                 ELSE scored
    IN  [required_capabilities |->
             [i \in DOMAIN required_capabilities |-> required_capabilities[i].capability],
         capability_scores |-> capability_scores,
         keywords |-> keywords,
         question_type |-> question_type,
         confidence |-> calculate_confidence(required_capabilities, question_type,
                                             Cardinality(keywords))]

\* PlanningResult.confidence: Field(..., ge=0.0, le=1.0)
ValidPlanningResult(r) == r.confidence >= 0 /\ r.confidence <= 100

\* a question of at most MaxWords words
PlanInit ==
    /\ ppc = "ready"
    /\ \E n \in 0..MaxWords : question \in [1..n -> QuestionWords]
    /\ plan_result = <<>>

InitPlan == PlanInit /\ NavOff /\ AsmOff /\ UnitsOff

\* plan_question(question)
PlanQuestion ==
    /\ ppc = "ready"
    /\ IF ValidPlanningResult(plan_question(question))
       THEN /\ plan_result' = plan_question(question)
            /\ ppc' = "planned"
       ELSE /\ ppc' = "raised"
            /\ UNCHANGED plan_result
    /\ UNCHANGED <<unitVars, navVars, asmVars, question>>

NextPlan == PlanQuestion

SpecPlan == InitPlan /\ [][NextPlan]_vars

(***************************************************************************)
(* AdapterRegistry                                                         *)
(***************************************************************************)
\* self._adapters[adapter.adapter_type] = adapter: a dict keeps the position
\* of a key that is assigned again
register_adapter(registry, adapter) ==
    IF \E i \in DOMAIN registry : registry[i].adapter_type = adapter.adapter_type
    THEN [i \in DOMAIN registry |->
             IF registry[i].adapter_type = adapter.adapter_type THEN adapter
             ELSE registry[i]]
    ELSE Append(registry, adapter)

\* the minimum confidence threshold of get_best_adapter
ConfidenceFloor == 50

\* a floor that an adapter at exactly 0.5 passes
AboveFloor_Inclusive(confidence) == confidence >= ConfidenceFloor

\* best_confidence > 0.5
AboveFloor(confidence) == confidence > ConfidenceFloor

\* the loop of get_best_adapter over self._adapters.values(), from adapter i
RECURSIVE best_adapter_loop(_, _, _)
best_adapter_loop(registry, i, best) ==
    IF i > Len(registry) THEN best
    ELSE IF registry[i].can_handle.raises
         THEN best_adapter_loop(registry, i + 1, best)
         ELSE IF registry[i].can_handle.confidence > best.best_confidence
              THEN best_adapter_loop(registry, i + 1,
                       [best_adapter |-> registry[i],
                        best_confidence |-> registry[i].can_handle.confidence])
              ELSE best_adapter_loop(registry, i + 1, best)

\* get_best_adapter
get_best_adapter(registry) ==
    LET best == best_adapter_loop(registry, 1,
                    [best_adapter |-> NoAdapter, best_confidence |-> 0])
    IN  IF registry = <<>> THEN NoAdapter
        ELSE IF best.best_adapter # NoAdapter /\ AboveFloor(best.best_confidence)
             THEN best.best_adapter
             ELSE NoAdapter

\* AdapterRegistry()
RegistryInit ==
    /\ rpc = "open"
    /\ adapters = <<>>
    /\ best_adapter = NoAdapter

\* registry.register_adapter(adapter)
RegisterAdapter ==
    /\ rpc = "open"
    /\ \E t \in AdapterTypes, o \in CanHandleOutcomes :
          adapters' = register_adapter(adapters, [adapter_type |-> t, can_handle |-> o])
    /\ UNCHANGED <<navVars, asmVars, planVars, cfgVars, blkVars, covVars, rpc, best_adapter>>

\* await registry.get_best_adapter(url)
GetBestAdapter ==
    /\ rpc = "open"
    /\ best_adapter' = get_best_adapter(adapters)
    /\ rpc' = "returned"
    /\ UNCHANGED <<navVars, asmVars, planVars, cfgVars, blkVars, covVars, adapters>>

NextRegistry == RegisterAdapter \/ GetBestAdapter

InitRegistry ==
    RegistryInit /\ NavOff /\ AsmOff /\ PlanOff /\ ConfigOff /\ AdapterOff /\ CoverageOff

SpecRegistry == InitRegistry /\ [][NextRegistry]_vars

(***************************************************************************)
(* Settings and CrawlConfig                                                *)
(***************************************************************************)
CrawlFields == {"max_depth", "page_budget", "char_budget", "per_page_timeout",
                "global_timeout"}

\* the ranges of the validators of Settings
CrawlRanges ==
    [max_depth |-> [lo |-> 0, hi |-> 10],
     page_budget |-> [lo |-> 1, hi |-> 100],
     char_budget |-> [lo |-> 1000, hi |-> 100000],
     per_page_timeout |-> [lo |-> 1, hi |-> 60],
     global_timeout |-> [lo |-> 10, hi |-> 300]]

\* the values passed to a constructor: the ends of each range and their
\* neighbours outside it
CrawlValues ==
    [max_depth : {-1, 0, 10, 11},
     page_budget : {0, 1, 100, 101},
     char_budget : {999, 1000, 100000, 100001},
     per_page_timeout : {0, 1, 60, 61},
     global_timeout : {9, 10, 300, 301}]

\* the field validators of Settings: if v < lo or v > hi: raise ValueError
settings_validators(values) ==
    \A f \in CrawlFields :
        ~(values[f] < CrawlRanges[f].lo \/ values[f] > CrawlRanges[f].hi)

\* the fields of CrawlConfig are declared with a default and a description
crawl_config_validators(values) == TRUE

Constructed(kind, values) ==
    [kind |-> kind,
     max_depth |-> values.max_depth,
     page_budget |-> values.page_budget,
     char_budget |-> values.char_budget,
     per_page_timeout |-> values.per_page_timeout,
     global_timeout |-> values.global_timeout]

ConfigInit ==
    /\ cpc = "ready"
    /\ crawl_values \in CrawlValues
    /\ constructed = NoConfig

\* Settings(max_depth=..., page_budget=..., ...)
ConstructSettings ==
    /\ cpc = "ready"
    /\ IF settings_validators(crawl_values)
       THEN /\ constructed' = Constructed("Settings", crawl_values)
            /\ cpc' = "settings"
       ELSE /\ cpc' = "failed"
            /\ UNCHANGED constructed
    /\ UNCHANGED <<navVars, asmVars, planVars, regVars, blkVars, covVars, crawl_values>>

\* CrawlConfig(max_depth=..., page_budget=..., ...)
ConstructCrawlConfig ==
    /\ cpc = "ready"
    /\ IF crawl_config_validators(crawl_values)
       THEN /\ constructed' = Constructed("CrawlConfig", crawl_values)
            /\ cpc' = "config"
       ELSE /\ cpc' = "failed"
            /\ UNCHANGED constructed
    /\ UNCHANGED <<navVars, asmVars, planVars, regVars, blkVars, covVars, crawl_values>>

\* settings.get_crawl_config()
GetCrawlConfig ==
    /\ cpc = "settings"
    /\ IF crawl_config_validators(constructed)
       THEN /\ constructed' = Constructed("CrawlConfig", constructed)
            /\ cpc' = "config"
       ELSE /\ cpc' = "failed"
            /\ UNCHANGED constructed
    /\ UNCHANGED <<navVars, asmVars, planVars, regVars, blkVars, covVars, crawl_values>>

NextConfig == ConstructSettings \/ ConstructCrawlConfig \/ GetCrawlConfig

InitConfig ==
    ConfigInit /\ NavOff /\ AsmOff /\ PlanOff /\ RegistryOff /\ AdapterOff /\ CoverageOff

SpecConfig == InitConfig /\ [][NextConfig]_vars

(***************************************************************************)
(* BaseAdapter.create_content_block                                        *)
(***************************************************************************)
\* A text as create_content_block sees it: its length without the
\* surrounding whitespace, the whitespace strip() removes, and what
\* score_content_quality looks for in it.
RawContents ==
    {c \in [chars : {0, 49, 50, 99, 100, 199, 200},
            padding : {0, 2},
            structured : BOOLEAN,      \* holds a structure indicator
            sparse : BOOLEAN,          \* less than 70% of it is no whitespace
            code_words : BOOLEAN,      \* holds "def ", "class ", "function" or "import"
            api_words : BOOLEAN] :     \* holds "GET", "POST", "PUT", "DELETE" or "/api/"
        c.chars = 0 => ~(c.structured \/ c.sparse \/ c.code_words \/ c.api_words)}

\* AdapterConfig: min_content_length and content_quality_threshold (in
\* hundredths)
AdapterConfigs == [min_content_length : {0, 50, 100},
                   content_quality_threshold : {30, 60}]

\* len(content)
RawLen(content) == content.chars + content.padding

\* content.strip()
Strip(content) == [content EXCEPT !.padding = 0]

\* score_content_quality, in hundredths
score_content_quality(content, content_type, cfg) ==
    LET length == RawLen(content)
        short == IF length < 50 THEN 30
                 ELSE IF length < 100 THEN 60
                 ELSE IF length < 200 THEN 80
                 ELSE 100
        structure == IF content.structured THEN Min(100, short + 20) ELSE short
        whitespace == IF content.sparse THEN (structure * 7) \div 10 ELSE structure
        typed == IF \/ content_type = "code_map" /\ content.code_words
                    \/ content_type = "api_spec" /\ content.api_words
                 THEN Min(100, whitespace + 30)
                 ELSE whitespace
    IN  IF length = 0 \/ Strip(content).chars < cfg.min_content_length THEN 0
        ELSE Max(0, Min(100, typed))

\* a char_count taken before the content is stripped
CharCount_Unstripped(raw, content) == RawLen(raw)

\* char_count=len(content), content being the stripped text
CharCount(raw, content) == RawLen(content)

\* create_content_block: the block, or NoBlock when it raises ValueError
create_content_block(content_type, raw, cfg) ==
    LET content == Strip(raw)
        quality_score == score_content_quality(content, content_type, cfg)
    IN  IF RawLen(content) < cfg.min_content_length THEN NoBlock
        ELSE IF quality_score < cfg.content_quality_threshold THEN NoBlock
        ELSE [content_type |-> content_type,
              content |-> content,
              score |-> quality_score,
              char_count |-> CharCount(raw, content)]

AdapterInit ==
    /\ bpc = "ready"
    /\ block_input \in [content_type : {"section", "code_map", "api_spec"},
                        content : RawContents,
                        config : AdapterConfigs]
    /\ created_block = NoBlock

\* adapter.create_content_block(content_type, content, url)
CreateContentBlock ==
    /\ bpc = "ready"
    /\ created_block' = create_content_block(block_input.content_type,
                                             block_input.content, block_input.config)
    /\ bpc' = IF created_block' = NoBlock THEN "failed" ELSE "created"
    /\ UNCHANGED <<navVars, asmVars, planVars, regVars, cfgVars, covVars, block_input>>

InitAdapter ==
    AdapterInit /\ NavOff /\ AsmOff /\ PlanOff /\ RegistryOff /\ ConfigOff /\ CoverageOff

\* blocks are created by an adapter, or a list of blocks is assembled
InitBlocks == InitAdapter \/ InitAsm

NextBlocks == CreateContentBlock \/ NextAsm

SpecBlocks == InitBlocks /\ [][NextBlocks]_vars

(***************************************************************************)
(* Capability coverage: the extractor and the assembler                    *)
(***************************************************************************)
ContentTypes == {"nav_bar", "main_body", "section", "transcript", "code_map", "route",
                 "api_spec", "manifest", "readme", "generic"}

\* the if/elif chain of _verify_capability_coverage
ExtractorContentToCapability(content_type) ==
    CASE content_type = "section" -> "section"
      [] content_type = "nav_bar" -> "nav_graph"
      [] content_type = "code_map" -> "code_map"
      [] content_type = "api_spec" -> "api_spec"
      [] content_type = "transcript" -> "transcript"
      [] content_type = "route" -> "routes"
      [] OTHER -> "none"

\* ContentExtractor._verify_capability_coverage
verify_capability_coverage(blocks, h, required_capabilities) ==
    LET available_capabilities ==
            {ExtractorContentToCapability(h[blocks[i]].content_type) : i \in DOMAIN blocks}
            \ {"none"}
    IN  [c \in SeqToSet(required_capabilities) |-> c \in available_capabilities]

\* a list of blocks, of which only the content type matters here, and a list
\* of required capabilities
CoverageInit ==
    /\ vpc = "ready"
    /\ \E n \in 0..MaxBlocks, m \in 0..1 :
          coverage_input \in [blocks : [1..n -> [content_type : ContentTypes]],
                              required_capabilities : [1..m -> Capabilities]]
    /\ extractor_coverage = NoCoverage
    /\ assembler_coverage = NoCoverage

CoverageBlocks == [i \in DOMAIN coverage_input.blocks |-> i]

\* extractor._verify_capability_coverage(blocks, required_capabilities)
VerifyCapabilityCoverage ==
    /\ vpc = "ready"
    /\ extractor_coverage' = verify_capability_coverage(
                                 CoverageBlocks, coverage_input.blocks,
                                 coverage_input.required_capabilities)
    /\ vpc' = "verified"
    /\ UNCHANGED <<navVars, asmVars, planVars, regVars, cfgVars, blkVars,
                   coverage_input, assembler_coverage>>

\* assembler._calculate_coverage(blocks, required_capabilities), on the same
\* arguments
CalculateCoverage ==
    /\ vpc = "verified"
    /\ assembler_coverage' = calculate_coverage(
                                 CoverageBlocks, coverage_input.blocks,
                                 coverage_input.required_capabilities)
    /\ vpc' = "calculated"
    /\ UNCHANGED <<navVars, asmVars, planVars, regVars, cfgVars, blkVars,
                   coverage_input, extractor_coverage>>

NextCoverage == VerifyCapabilityCoverage \/ CalculateCoverage

InitCoverage ==
    CoverageInit /\ NavOff /\ AsmOff /\ PlanOff /\ RegistryOff /\ ConfigOff /\ AdapterOff

SpecCoverage == InitCoverage /\ [][NextCoverage]_vars

(***************************************************************************)
(* Properties of an assembly                                               *)
(***************************************************************************)
IsTruncated(block) == "truncated" \in DOMAIN block.metadata

\* C3: the blocks the budget step returns hold at most char_budget characters
\* in total, and a truncated last block is no longer than the budget that
\* the blocks before it left.
C3_CharBudgetRespected ==
    apc \in {"budgeted", "done"} =>
        /\ TotalChars(budgeted_blocks, store) <= char_budget
        /\ \A n \in DOMAIN budgeted_blocks :
              (n = Len(budgeted_blocks) /\ IsTruncated(store[budgeted_blocks[n]]))
                  => store[budgeted_blocks[n]].content.chars
                         <= char_budget
                            - TotalChars(SubSeq(budgeted_blocks, 1, n - 1), store)

\* a block that did not fit was truncated behind a whole block and fills the
\* budget to the last character
C3_Witness ==
    /\ apc = "budgeted"
    /\ Len(budgeted_blocks) >= 2
    /\ IsTruncated(store[budgeted_blocks[Len(budgeted_blocks)]])
    /\ store[budgeted_blocks[Len(budgeted_blocks)]].content.ellipsis
    /\ TotalChars(budgeted_blocks, store) = char_budget

RepresentedCapabilities(blocks) ==
    {ContentToCapability(store[blocks[i]].content_type) : i \in DOMAIN blocks}

\* C4: a required capability that no ranked block represents, but for which
\* some extracted block has a capability relevance above 0.3, is reported as
\* covered in the result.
C4_CoveragePriority ==
    apc = "done" =>
        \A c \in SeqToSet(planning_result.required_capabilities) :
            ( /\ c \notin RepresentedCapabilities(scored_blocks)
              /\ \E i \in DOMAIN content_blocks :
                    estimate_capability_relevance(store[content_blocks[i]], c)
                        > MinCapabilityRelevance )
                => assembly_result.capability_coverage[c]

\* token-Jaccard similarity of two blocks above 0.8, i.e. above 4/5
JaccardAbove80(a, b) ==
    LET similarity == calculate_content_similarity(store[a].content.tokens,
                                                   store[b].content.tokens)
    IN  5 * similarity[1] > 4 * similarity[2]

Fingerprint(a) == calculate_simhash(store[a].content.tokens)

NoSimilarPairKept ==
    \A i, j \in DOMAIN deduplicated :
        i # j => ~JaccardAbove80(deduplicated[i], deduplicated[j])

\* C5, as stated: the output of _deduplicate_blocks holds no two blocks more
\* than 0.8 similar, and any two input blocks at most 0.8 similar and with
\* different fingerprints are both in the output.
C5_DedupCorrectness ==
    apc = "deduplicated" =>
        /\ NoSimilarPairKept
        /\ \A i, j \in DOMAIN content_blocks :
              ( /\ i # j
                /\ ~JaccardAbove80(content_blocks[i], content_blocks[j])
                /\ Fingerprint(content_blocks[i]) # Fingerprint(content_blocks[j]) )
                  => /\ content_blocks[i] \in SeqToSet(deduplicated)
                     /\ content_blocks[j] \in SeqToSet(deduplicated)

\* C5, amended: the output holds no two blocks more than 0.8 similar, and an
\* input block is left out only when a block kept before it has the same
\* fingerprint or is more than 0.8 similar to it.
C5_DroppedOnlyForKeptDuplicate ==
    apc = "deduplicated" =>
        /\ NoSimilarPairKept
        /\ \A j \in DOMAIN content_blocks :
              content_blocks[j] \notin SeqToSet(deduplicated)
                  => \E i \in 1..(j - 1) :
                        /\ content_blocks[i] \in SeqToSet(deduplicated)
                        /\ \/ Fingerprint(content_blocks[i]) = Fingerprint(content_blocks[j])
                           \/ JaccardAbove80(content_blocks[i], content_blocks[j])

\* of three blocks the second was dropped for its similarity to the first,
\* and the third, exactly 0.8 similar to the first, was kept
C5_Witness ==
    /\ apc = "deduplicated"
    /\ Len(content_blocks) = 3
    /\ deduplicated = <<content_blocks[1], content_blocks[3]>>
    /\ JaccardAbove80(content_blocks[1], content_blocks[2])
    /\ Fingerprint(content_blocks[1]) # Fingerprint(content_blocks[2])
    /\ LET similarity == calculate_content_similarity(
                             store[content_blocks[1]].content.tokens,
                             store[content_blocks[3]].content.tokens)
       IN  5 * similarity[1] = 4 * similarity[2]

(***************************************************************************)
(* Properties of a navigator session                                       *)
(***************************************************************************)
FetchedUrls == {fetch_calls[i] : i \in DOMAIN fetch_calls}

\* C1: no URL is passed to _fetch_page twice in a session, whether its first
\* fetch succeeded or failed.
C1_NoDuplicateFetch ==
    \A i, j \in DOMAIN fetch_calls : i # j => fetch_calls[i] # fetch_calls[j]

\* a candidate was popped whose URL had been fetched before, without success,
\* and it was dropped instead of fetched again
C1_Witness ==
    /\ pc = "loop"
    /\ stats.urls_queued - Len(link_queue) > Len(fetch_calls)
    /\ \E i \in DOMAIN outcomes :
          outcomes[i].url = candidate.url /\ outcomes[i].outcome # "ok"

\* C2: the number of pages fetched and yielded never exceeds page_budget.
C2_PageBudgetRespected ==
    /\ stats.urls_visited <= config.page_budget
    /\ Len(yielded) <= config.page_budget

\* the budget ended a session that still had candidates queued
C2_Witness ==
    /\ pc = "done"
    /\ exit_reason = "BudgetExhausted"
    /\ config.page_budget >= 2
    /\ stats.urls_visited = config.page_budget
    /\ link_queue # <<>>

\* C6: a fetch that ends in a transport error was attempted 3 times before
\* the error was counted and the candidate dropped.
C6_TransportErrorRetried ==
    \A i \in DOMAIN outcomes :
        outcomes[i].outcome \in TransportErrors
            => outcomes[i].requests = StopAfterAttempt

LastOutcomeIs(exc) ==
    outcomes # <<>> /\ outcomes[Len(outcomes)].outcome = exc

\* C7: an HTTP error status costs one request, adds 1 to stats.errors, leaves
\* urls_visited and bytes_fetched alone, yields nothing and does not end the
\* session: with candidates, budget and time left the next step pops a
\* candidate.
C7_HttpErrorNotFatal ==
    [][ /\ (Len(outcomes') = Len(outcomes) + 1
            /\ outcomes'[Len(outcomes')].outcome = "HTTPStatusError")
           => /\ outcomes'[Len(outcomes')].requests = 1
              /\ requests' = 1
              /\ stats'.errors = stats.errors + 1
              /\ stats'.urls_visited = stats.urls_visited
              /\ stats'.bytes_fetched = stats.bytes_fetched
              /\ yielded' = yielded
              /\ pc' = "loop"
        /\ (pc = "loop" /\ LastOutcomeIs("HTTPStatusError")
            /\ LoopGuard /\ ~TimeoutReached)
           => /\ link_queue' = heappop(link_queue)[2]
              /\ pc' \in {"loop", "fetch"}
      ]_vars

\* after an HTTP error the next candidate has been popped and is being fetched
C7_Witness ==
    /\ pc = "fetch"
    /\ LastOutcomeIs("HTTPStatusError")
    /\ Len(fetch_calls) = Len(outcomes) + 1

\* C8: no candidate deeper than config.max_depth is fetched, and links are
\* extracted only from pages above config.max_depth.
C8_ConfigDepthRespected ==
    /\ pc \in {"fetch", "yield"} => candidate.depth <= config.max_depth
    /\ (pc = "loop" /\ LastOutcomeIs("ok") /\ candidate.depth >= config.max_depth)
          => \A i \in DOMAIN link_queue : link_queue[i].parent_url # candidate.url

\* C9: every URL fetched, the seed aside, has the origin of the seed and
\* matches no skip pattern.
C9_SameOriginNoSkipPattern ==
    \A i \in DOMAIN fetch_calls :
        fetch_calls[i] # start_url
            => /\ fetch_calls[i].origin = start_url.origin
               /\ ~MatchesSkipPattern(fetch_calls[i])

\* a link found two hops from the seed is fetched, on a page that also links
\* to another origin
C9_Witness ==
    /\ pc = "fetch"
    /\ candidate.depth = 2
    /\ Url(Other, "/docs/api/auth") \in robots_asked

CachedParserForbids(url) ==
    robots_cache[url.origin] = "parser" /\ url \in world.disallow

\* C10: robots.txt is consulted for every URL before it is fetched, the seed
\* included, and no URL the cached parser forbids is fetched.
C10_RobotsConsultedBeforeFetch ==
    \A i \in DOMAIN fetch_calls :
        /\ fetch_calls[i] \in robots_asked
        /\ ~CachedParserForbids(fetch_calls[i])

\* the candidates of the last batch that found no room in the queue
CutForRoom ==
    {batch.sorted[i] : i \in DOMAIN batch.sorted} \ SeqToSet(batch.pushed)

\* C12: the queue never holds more than page_budget candidates, and no
\* candidate admitted from a batch scores below a candidate of the batch that
\* was cut for lack of room.
C12_QueueBoundedBestAdmitted ==
    /\ Len(link_queue) <= config.page_budget
    /\ \A i \in DOMAIN batch.pushed : \A c \in CutForRoom :
          c.score >= MinLinkScore => batch.pushed[i].score >= c.score

\* a batch filled the queue to the budget: its best candidate was admitted
\* and one that scored high enough for the queue was cut
C12_Witness ==
    /\ pc = "loop"
    /\ Len(link_queue) = config.page_budget
    /\ config.page_budget >= 2
    /\ batch.pushed # <<>>
    /\ \E c \in CutForRoom : c.score >= MinLinkScore

\* a step of the session that pops a candidate off the queue
IsPop == Len(link_queue') = Len(link_queue) - 1

\* the number of candidates popped so far
Popped == Len(enqueued) - Len(link_queue)

\* C13: every pop returns a candidate that scores at least as high as every
\* candidate left in the queue, and the first pop of a session returns the
\* seed.
C13_PopReturnsHighest ==
    [][ IsPop =>
          /\ \A i \in DOMAIN link_queue' : candidate'.score >= link_queue'[i].score
          /\ Popped = 0 => (candidate'.url = start_url /\ candidate'.depth = 0)
      ]_vars

\* a linked page was popped ahead of two queued candidates, one of them
\* scoring lower
C13_Witness ==
    /\ pc = "fetch"
    /\ candidate.depth >= 1
    /\ Len(link_queue) >= 2
    /\ \E i \in DOMAIN link_queue : link_queue[i].score < candidate.score

\* the position at which a candidate was pushed onto the queue
EnqueuedAt(c) ==
    CHOOSE i \in DOMAIN enqueued :
        enqueued[i] = c /\ \A j \in 1..(i - 1) : enqueued[j] # c

\* C14: of queued candidates with the same score the one enqueued first is
\* popped first.
C14_TiesInDiscoveryOrder ==
    [][ IsPop =>
          \A i \in DOMAIN link_queue' :
              link_queue'[i].score = candidate'.score
                  => EnqueuedAt(candidate') <= EnqueuedAt(link_queue'[i])
      ]_vars

\* C15: no candidate is pushed onto the queue with a URL that is in the
\* visited set.
C15_VisitedNeverEnqueued ==
    [][ \A i \in (Len(enqueued) + 1)..Len(enqueued') :
            /\ enqueued'[i].url \notin visited_urls
            /\ enqueued'[i].url \notin visited_urls'
      ]_vars

\* the links of a page that links back to the visited seed were queued
C15_Witness ==
    /\ pc = "loop"
    /\ result.content = BackPage
    /\ batch.pushed # <<>>
    /\ batch.pushed[1].parent_url = candidate.url
    /\ start_url \in visited_urls

\* C16: no fetch is started when the elapsed time exceeds global_timeout, and
\* a check of the deadline made after it has passed ends the loop without
\* popping a candidate.
C16_DeadlineCheckedBeforeFetch ==
    [][ /\ Len(fetch_calls') > Len(fetch_calls) => clock <= config.global_timeout
        /\ ( /\ pc = "loop"
              /\ link_queue # <<>>
              /\ stats.urls_visited < config.page_budget
              /\ clock > config.global_timeout )
           => /\ pc' = "done"
              /\ link_queue' = link_queue
              /\ fetch_calls' = fetch_calls
      ]_vars

\* the deadline passed during the second fetch, and the session ended with
\* candidates queued and budget left
C16_Witness ==
    /\ pc = "done"
    /\ exit_reason = "TimedOut"
    /\ clock > config.global_timeout
    /\ Len(fetch_calls) = 2
    /\ link_queue # <<>>
    /\ stats.urls_visited < config.page_budget

\* A measure of the work a session has left: the budget not yet spent, the
\* candidates queued, and the position within the iteration.
QueueWeight == StopAfterAttempt + 3
YieldRank == QueueWeight * (config.page_budget + 1) + 1
PcRank ==
    CASE pc = "idle" -> QueueWeight + 2
      [] pc = "loop" -> 1
      [] pc = "fetch" -> 2 + (StopAfterAttempt - requests)
      [] pc = "yield" -> YieldRank
      [] OTHER -> 0
Variant ==
    (YieldRank + 1) * (config.page_budget - stats.urls_visited)
    + QueueWeight * Len(link_queue) + PcRank

\* C17: every session ends after finitely many steps: each step of navigate
\* lowers a measure that is never negative, no step ends in an exception,
\* and when the loop exits the queue is empty, or urls_visited has reached
\* page_budget, or the deadline has passed.
C17_SessionTerminates ==
    [][ /\ Variant' < Variant
        /\ Variant' >= 0
        /\ pc' # "crashed"
        /\ pc' = "done" => \/ link_queue' = <<>>
                           \/ stats'.urls_visited >= config.page_budget
                           \/ clock' > config.global_timeout
      ]_vars

\* a session over pages that link back to visited pages, with a failed fetch
\* and a candidate dropped as visited, ran until its queue was empty
C17_Witness ==
    /\ pc = "done"
    /\ exit_reason = "Completed"
    /\ stats.errors >= 1
    /\ Popped > Len(fetch_calls)
    /\ \E i \in DOMAIN enqueued : enqueued[i].parent_url \notin {NoUrl, start_url}

\* every fetch of the session so far returned a page
AllFetchesSucceeded == \A i \in DOMAIN outcomes : outcomes[i].outcome = "ok"

\* the fetch of url returned a page
FetchedOk(url) == \E i \in DOMAIN outcomes :
                      outcomes[i].url = url /\ outcomes[i].outcome = "ok"

\* the links of the seed page that were pushed, in the order of the pushes
\* (the order of the sort by score)
SeedLinks == SelectSeq(enqueued, LAMBDA c : c.parent_url = start_url)

\* the seed page has more scored links than the budget leaves room for
SeedLinksExceedBudget ==
    Cardinality({c \in considered : c.parent_url = start_url}) > config.page_budget - 1

WholePrefix ==
    CHOOSE k \in 0..Len(coverage_blocks) :
        /\ TotalChars(SubSeq(coverage_blocks, 1, k), store) <= char_budget
        /\ k < Len(coverage_blocks)
              => TotalChars(SubSeq(coverage_blocks, 1, k + 1), store) > char_budget

\* the budget that the blocks that fit whole leave
RemainingBudget == char_budget - TotalChars(SubSeq(coverage_blocks, 1, WholePrefix), store)

\* C19: when the budget step reaches the first block that does not fit whole
\* with R characters of budget remaining, then with R >= 200 it adds a
\* truncated copy of exactly R characters that ends with an ellipsis and
\* carries truncated = true and the original length, with R < 200 it adds
\* nothing, and either way no later block is included.
C19_TruncateOrStop ==
    (apc = "budgeted" /\ WholePrefix < Len(coverage_blocks)) =>
        LET original == store[coverage_blocks[WholePrefix + 1]]
            whole == SubSeq(coverage_blocks, 1, WholePrefix)
        IN  IF RemainingBudget >= 200
            THEN /\ Len(budgeted_blocks) = WholePrefix + 1
                 /\ SubSeq(budgeted_blocks, 1, WholePrefix) = whole
                 /\ LET copy == store[budgeted_blocks[WholePrefix + 1]]
                    IN  /\ copy.content.chars = RemainingBudget
                        /\ copy.content.ellipsis
                        /\ IsTruncated(copy)
                        /\ copy.metadata["truncated"] = TRUE
                        /\ copy.metadata["original_length"] = original.content.chars
            ELSE budgeted_blocks = whole

\* C20: no step of an assembly, and no budget step, changes the content,
\* char_count, content_type or url of a block it was given: a step only adds
\* entries to the metadata of existing blocks, and a truncated block is a new
\* object.
C20_InputBlocksUnchanged ==
    [][ \A id \in DOMAIN store :
           /\ id \in DOMAIN store'
           /\ store'[id].content = store[id].content
           /\ store'[id].char_count = store[id].char_count
           /\ store'[id].content_type = store[id].content_type
           /\ store'[id].url = store[id].url
           /\ DOMAIN store[id].metadata \subseteq DOMAIN store'[id].metadata
      ]_vars

\* C21: the selected blocks of an assembly hold no block twice and no two
\* blocks whose token-Jaccard similarity is above 0.8.
C21_FinalBlocksDeduplicated ==
    apc = "done" =>
        \A i, j \in DOMAIN assembly_result.selected_blocks :
            i < j => /\ assembly_result.selected_blocks[i]
                           # assembly_result.selected_blocks[j]
                     /\ ~JaccardAbove80(assembly_result.selected_blocks[i],
                                        assembly_result.selected_blocks[j])

\* C22: assemble_content never raises; when a step raised, the result has
\* no selected blocks, an empty coverage map, char_count 0, duplicates_removed
\* 0 and the error recorded in assembly_stats.
C22_NeverRaises ==
    /\ apc # "raised"
    /\ apc = "failed" =>
          /\ assembly_result.selected_blocks = <<>>
          /\ DOMAIN assembly_result.capability_coverage = {}
          /\ assembly_result.char_count = 0
          /\ assembly_result.duplicates_removed = 0
          /\ "error" \in DOMAIN assembly_result.assembly_stats
          /\ assembly_result.assembly_stats["error"] \in StepErrors

\* a step raised a validation error after blocks had been deduplicated,
\* scored and selected for the budget
C22_Witness ==
    /\ apc = "failed"
    /\ assembly_result.assembly_stats["error"] = "ValidationError"
    /\ budgeted_blocks # <<>>
    /\ Len(deduplicated) < Len(content_blocks)

\* C23: the calls of assemble_content with the same arguments return the
\* same selected blocks in the same order, the same coverage map, char_count
\* and duplicates_removed, also when a later call is given the block objects
\* with the score metadata of the earlier call on them.
C23_Deterministic ==
    \A i, j \in DOMAIN runs : runs[i] = runs[j]

\* the second call returned; it was given blocks that carried the scores of
\* the first, it reordered them and it truncated the last one
C23_Witness ==
    /\ apc = "done"
    /\ Len(runs) = 2
    /\ Len(runs[2].selected_blocks) >= 2
    /\ IsTruncated(runs[2].selected_blocks[Len(runs[2].selected_blocks)])
    /\ runs[2].selected_blocks[1] # store[content_blocks[1]]
    /\ \A i \in DOMAIN content_blocks :
          "question_relevance_score" \in DOMAIN store[content_blocks[i]].metadata

\* the blocks of a list that are the first of their URL, in the order of the list
FirstOfUrl(blocks) ==
    SelectSeq([i \in DOMAIN blocks |-> i],
              LAMBDA i : \A j \in 1..(i - 1) : store[blocks[j]].url # store[blocks[i]].url)

\* C24: the citations are one per distinct URL of the blocks, in the order
\* of first occurrence, each built from the first block of its URL; the
\* snippet is a prefix of at most 200 characters of that block's content and
\* has the ellipsis exactly when the content is longer than 200 characters.
C24_OneCitationPerUrl ==
    apc = "done" =>
        LET blocks == assembly_result.selected_blocks
            first == FirstOfUrl(blocks)
        IN  /\ Len(citations) = Len(first)
            /\ \A n \in DOMAIN citations :
                  LET block == store[blocks[first[n]]]
                      text == citations[n].snippet.text
                  IN  /\ citations[n].url = block.url
                      /\ citations[n].content_type = block.content_type
                      /\ text.chars <= 200
                      /\ text.chars <= block.content.chars
                      /\ Len(text.tokens) <= Len(block.content.tokens)
                      /\ text.tokens = SubSeq(block.content.tokens, 1, Len(text.tokens))
                      /\ citations[n].snippet.ellipsis <=> block.content.chars > 200
            /\ \A m, n \in DOMAIN citations : m # n => citations[m].url # citations[n].url

\* three selected blocks, the first and the third of the same URL with
\* different content: two citations, the first with a snippet that strip()
\* shortened below 200 characters
C24_Witness ==
    /\ apc = "done"
    /\ Len(assembly_result.selected_blocks) = 3
    /\ store[assembly_result.selected_blocks[1]].url
           = store[assembly_result.selected_blocks[3]].url
    /\ store[assembly_result.selected_blocks[1]].content
           # store[assembly_result.selected_blocks[3]].content
    /\ Len(citations) = 2
    /\ citations[1].snippet.text.chars < 200
    /\ citations[1].snippet.ellipsis

(***************************************************************************)
(* Properties of a plan                                                    *)
(***************************************************************************)
ScoredAbove(scores, threshold) == {c \in DOMAIN scores : scores[c] > threshold}

FallbackNames(question_type) ==
    [i \in DOMAIN get_fallback_capabilities(question_type) |->
        get_fallback_capabilities(question_type)[i].capability]

\* C25: for every question, the empty one included, plan_question returns a
\* result with at least one required capability and a confidence in (0, 1];
\* when no capability scores above 0.3, the required capabilities are the
\* fallback map of the classified question type.
C25_AlwaysARequiredCapability ==
    /\ ppc # "raised"
    /\ ppc = "planned" =>
        /\ Len(plan_result.required_capabilities) >= 1
        /\ plan_result.confidence > 0
        /\ plan_result.confidence <= 100
        /\ ScoredAbove(plan_result.capability_scores, 30) = {} =>
              plan_result.required_capabilities =
                  FallbackNames(classify_question_type(normalize_question(question)))

\* a planned question with a capability at exactly 0.3 and none above it
C25_Witness ==
    /\ ppc = "planned"
    /\ ScoredAbove(plan_result.capability_scores, 30) = {}
    /\ \E c \in DOMAIN plan_result.capability_scores :
          plan_result.capability_scores[c] = 30
    /\ plan_result.required_capabilities = <<"section", "readme">>

\* the capabilities plan_question scored, with their matches
ScoredConfigs ==
    {[capability |-> capability_keywords[i].capability,
      k |-> KeywordMatches(capability_keywords[i],
                           extract_keywords(normalize_question(question))),
      p |-> PatternMatches(capability_keywords[i], normalize_question(question))] :
        i \in DOMAIN capability_keywords}

\* C26 as stated: every score is min(1, 0.3k + 0.4p + 0.1[k>1] + 0.1[p>1]),
\* and a capability is required exactly when its score is above 0.3.
C26_RequiredIffAboveThreshold ==
    ppc = "planned" =>
        \A m \in ScoredConfigs :
            /\ plan_result.capability_scores[m.capability] =
                  Min(100, 30 * m.k + 40 * m.p
                           + (IF m.k > 1 THEN 10 ELSE 0) + (IF m.p > 1 THEN 10 ELSE 0))
            /\ m.capability \in SeqToSet(plan_result.required_capabilities)
                  <=> plan_result.capability_scores[m.capability] > 30

\* C26, amended: every score is min(1, 0.3k + 0.4p + 0.1[k>1] + 0.1[p>1]) and
\* lies in [0, 1]; when some capability scores above 0.3, a capability is
\* required exactly when its score is above 0.3, so that one keyword match
\* and no pattern match (0.3) does not make it required.
C26_ScoreAndThreshold ==
    ppc = "planned" =>
        \A m \in ScoredConfigs :
            LET score == plan_result.capability_scores[m.capability]
            IN  /\ score = Min(100, 30 * m.k + 40 * m.p
                                    + (IF m.k > 1 THEN 10 ELSE 0)
                                    + (IF m.p > 1 THEN 10 ELSE 0))
                /\ score >= 0
                /\ score <= 100
                /\ ScoredAbove(plan_result.capability_scores, 30) # {} =>
                      /\ m.capability \in SeqToSet(plan_result.required_capabilities)
                            <=> score > 30
                      /\ m.k = 1 /\ m.p = 0 =>
                            m.capability \notin SeqToSet(plan_result.required_capabilities)

\* a plan with one capability at exactly 0.3, left out, next to a required
\* one whose raw score was clamped to 1
C26_Witness ==
    /\ ppc = "planned"
    /\ \E m \in ScoredConfigs :
          /\ m.k = 1 /\ m.p = 0
          /\ plan_result.capability_scores[m.capability] = 30
          /\ m.capability \notin SeqToSet(plan_result.required_capabilities)
    /\ \E m \in ScoredConfigs :
          /\ 30 * m.k + 40 * m.p + (IF m.k > 1 THEN 10 ELSE 0) > 100
          /\ plan_result.capability_scores[m.capability] = 100
          /\ m.capability \in SeqToSet(plan_result.required_capabilities)

(***************************************************************************)
(* Properties of the adapter registry                                      *)
(***************************************************************************)
\* the registered adapters whose can_handle returns
Answering == {i \in DOMAIN adapters : ~adapters[i].can_handle.raises}

\* C27: get_best_adapter returns a registered adapter with the highest
\* can_handle confidence when that confidence is above 0.5, and no adapter
\* when every confidence is at or below 0.5 or nothing is registered; an
\* adapter whose can_handle raises is skipped.
C27_BestAdapterAboveFloor ==
    rpc = "returned" =>
        IF \E i \in Answering : adapters[i].can_handle.confidence > 50
        THEN \E i \in Answering :
                /\ best_adapter = adapters[i]
                /\ \A j \in Answering :
                      adapters[j].can_handle.confidence
                          <= adapters[i].can_handle.confidence
        ELSE best_adapter = NoAdapter

\* an adapter that raises is registered before the one that is returned, and
\* an adapter at exactly 0.5 is registered too
C27_Witness ==
    /\ rpc = "returned"
    /\ Len(adapters) = 3
    /\ adapters[1].can_handle.raises
    /\ adapters[2].can_handle = [raises |-> FALSE, confidence |-> 50]
    /\ best_adapter = adapters[3]

(***************************************************************************)
(* Properties of the configuration                                         *)
(***************************************************************************)
InRange(values) ==
    /\ values.max_depth \in 0..10
    /\ values.page_budget \in 1..100
    /\ values.char_budget \in 1000..100000
    /\ values.per_page_timeout \in 1..60
    /\ values.global_timeout \in 10..300

\* C28: every crawl configuration value is validated at construction: a
\* Settings or a CrawlConfig that was built has max_depth in 0..10,
\* page_budget in 1..100, char_budget in 1000..100000, per_page_timeout in
\* 1..60 and global_timeout in 10..300.
C28_ValidatedAtConstruction ==
    cpc \in {"settings", "config"} => InRange(constructed)

(***************************************************************************)
(* Properties of the content blocks                                        *)
(***************************************************************************)
\* C29: create_content_block either fails and produces no block, the content
\* being shorter than the configured minimum or scoring below the configured
\* threshold, or returns a block with char_count = len(content), of at least
\* the minimum length and with a score of at least the threshold; every block
\* in AssemblyResult.selected_blocks, truncated copies included, has
\* char_count = len(content).
C29_BlocksKeepCharCount ==
    /\ bpc = "failed" => created_block = NoBlock
    /\ bpc = "created" =>
          /\ created_block # NoBlock
          /\ created_block.char_count
                = created_block.content.chars + created_block.content.padding
          /\ created_block.char_count >= block_input.config.min_content_length
          /\ created_block.score >= block_input.config.content_quality_threshold
    /\ apc = "done" =>
          \A i \in DOMAIN assembly_result.selected_blocks :
              LET block == store[assembly_result.selected_blocks[i]]
              IN  block.char_count = block.content.chars

\* a block was created from a text with whitespace around it, exactly as
\* long as the minimum once stripped
C29_Witness ==
    /\ bpc = "created"
    /\ block_input.content.padding > 0
    /\ created_block.char_count = block_input.config.min_content_length
    /\ created_block.char_count > 0

\* an assembly whose last selected block is a truncated copy
C29_WitnessTruncatedCopy ==
    /\ apc = "done"
    /\ assembly_result.selected_blocks # <<>>
    /\ LET block == store[assembly_result.selected_blocks[
                              Len(assembly_result.selected_blocks)]]
       IN  /\ "truncated" \in DOMAIN block.metadata
           /\ block.char_count = block.content.chars

(***************************************************************************)
(* Properties of the capability coverage                                   *)
(***************************************************************************)
\* C30: the extractor and the assembler map content types to capabilities
\* in the same way: for every list of blocks and every list of required
\* capabilities the extractor's _verify_capability_coverage and the
\* assembler's _calculate_coverage return the same coverage map.
C30_SameCoverage ==
    vpc = "calculated" => extractor_coverage = assembler_coverage

\* the scores of the candidates with this URL that were pushed onto the queue
QueuedScores(url) == {enqueued[i].score : i \in {j \in DOMAIN enqueued : enqueued[j].url = url}}

\* C31: after a session, get_navigation_result lists exactly the URLs of the
\* visited set, and url_scores gives each of them, the seed aside, the score
\* its candidate had in the queue.
C31_ResultScoresOfVisited ==
    navigation_result # NoNavigationResult =>
        /\ SeqToSet(navigation_result.urls_to_visit) = visited_urls
        /\ DOMAIN navigation_result.url_scores = visited_urls
        /\ \A u \in visited_urls \ {start_url} :
              navigation_result.url_scores[u] \in QueuedScores(u)

\* the candidates the running iteration hands to _filter_duplicate_content
FilterInput ==
    IF MayExtract(candidate)
    THEN update_link_scores(
             extract_links(result.content, candidate.url, candidate.depth + 1,
                           robots_cache, robots_asked, robots_reads, <<>>).candidates,
             question_keywords)
    ELSE <<>>

HammingDistance(a, b) == Cardinality((a \ b) \cup (b \ a))

\* s is t with some elements left out, in the same order
RECURSIVE IsSubList(_, _)
IsSubList(s, t) ==
    IF s = <<>> THEN TRUE
    ELSE IF t = <<>> THEN FALSE
    ELSE IF Head(s) = Head(t) THEN IsSubList(Tail(s), Tail(t))
    ELSE IsSubList(s, Tail(t))

\* C32: a link candidate whose fingerprint is within Hamming distance 3 of
\* the fingerprint of a candidate the filter saw before, in the same batch or
\* an earlier one, kept or rejected, is not pushed onto the queue; and what
\* the filter returns is its input with some candidates left out, in the
\* same order.
C32_NearDuplicatesRejected ==
    [][pc = "yield" /\ pc' = "loop" =>
         LET input == FilterInput
             hash(i) == calculate_simhash(input[i].text \o input[i].title)
             before(i) == filter_hashes \cup {hash(j) : j \in 1..(i - 1)}
             pushed == SubSeq(enqueued', Len(enqueued) + 1, Len(enqueued'))
         IN  /\ \A i \in DOMAIN input :
                   (\E h \in before(i) : HammingDistance(hash(i), h) <= 3)
                       => input[i] \notin SeqToSet(pushed)
             /\ IsSubList(filter_duplicate_content(input, simhash_cache, <<>>).filtered,
                          input)]_vars

\* the fetches that were started and have not ended
InFlight == Len(fetch_calls) - Len(outcomes)

\* C33: at most one fetch is in flight at any time; a candidate is popped
\* only at the head of the loop, with no fetch in flight and no page waiting
\* for its links to be queued; and the step that follows the completion of a
\* page's fetch queues the links of that page and nothing else, with no pop
\* and no new fetch in between.
C33_OneFetchOneBatch ==
    [][/\ InFlight' \in {0, 1}
       /\ (candidate' # candidate \/ Len(link_queue') < Len(link_queue)) =>
             /\ pc = "loop"
             /\ InFlight = 0
       /\ pc = "yield" =>
             /\ pc' = "loop"
             /\ candidate' = candidate
             /\ fetch_calls' = fetch_calls
             /\ \A i \in (Len(enqueued) + 1)..Len(enqueued') :
                   enqueued'[i].parent_url = candidate.url
             /\ SubSeq(enqueued', 1, Len(enqueued)) = enqueued]_vars

\* the links of the second page fetched were queued in the step after its
\* fetch, next to the candidates that were waiting in the queue
C33_Witness ==
    /\ pc = "loop"
    /\ Len(yielded) >= 2
    /\ \E i \in DOMAIN enqueued : enqueued[i].parent_url = yielded[2]
    /\ link_queue # <<>>

\* the total relevance score of a scored block, from the parts kept in its
\* metadata, in thousandths
TotalRelevance(block) ==
    3 * block.metadata["base_quality_score"] + 4 * block.metadata["keyword_score"]
    + 2 * block.metadata["capability_score"] + block.metadata["url_score"]

\* the blocks of a list that are no truncated copies
WholeBlocks(blocks, h) == SelectSeq(blocks, LAMBDA id : ~IsTruncated(h[id]))

\* C34: the blocks reach the budget step in non-increasing order of their
\* total relevance score 0.3 base + 0.4 keyword + 0.2 capability + 0.1 url,
\* with the blocks added for coverage after them; the blocks selected whole
\* are a prefix of that list, so no block is selected whole while a block
\* ranked before it was left out.
C34_RankedPrefixSelected ==
    /\ apc \in {"covered", "budgeted", "done"} =>
          /\ \A i, j \in DOMAIN scored_blocks :
                i < j => TotalRelevance(store[scored_blocks[i]])
                            >= TotalRelevance(store[scored_blocks[j]])
          /\ Len(coverage_blocks) >= Len(scored_blocks)
          /\ SubSeq(coverage_blocks, 1, Len(scored_blocks)) = scored_blocks
    /\ apc \in {"budgeted", "done"} =>
          LET whole == WholeBlocks(budgeted_blocks, store)
          IN  /\ Len(whole) <= Len(coverage_blocks)
              /\ whole = SubSeq(coverage_blocks, 1, Len(whole))
    /\ apc = "done" =>
          LET whole == WholeBlocks(assembly_result.selected_blocks, store)
          IN  /\ Len(whole) <= Len(coverage_blocks)
              /\ whole = SubSeq(coverage_blocks, 1, Len(whole))

\* the sort moved a block given later ahead of one given earlier, and the
\* budget left out the lowest ranked of them
C34_Witness ==
    /\ apc = "done"
    /\ Len(scored_blocks) >= 2
    /\ \E i, j \in DOMAIN scored_blocks : i < j /\ scored_blocks[i] > scored_blocks[j]
    /\ TotalRelevance(store[scored_blocks[1]])
          > TotalRelevance(store[scored_blocks[Len(scored_blocks)]])
    /\ assembly_result.selected_blocks # <<>>
    /\ Len(WholeBlocks(assembly_result.selected_blocks, store)) < Len(coverage_blocks)

\* the monotonic counters of NavigationStats
Counters == {"urls_visited", "urls_queued", "bytes_fetched", "errors", "depth_reached"}

\* the head of the while loop, before an iteration or after the last one
LoopBoundary == pc \in {"loop", "done"}

\* C35: the counters of the session never decrease, and at every boundary
\* between two iterations of the loop urls_visited + errors is the number of
\* URLs in the visited set: each URL marked visited is counted once, as a
\* fetch that succeeded or as an error.
C35_VisitedAccounted ==
    [][/\ pc # "idle" => \A k \in Counters : stats'[k] >= stats[k]
       /\ LoopBoundary' =>
              stats'.urls_visited + stats'.errors = Cardinality(visited_urls')]_vars

\* the loop is at its head after a fetch that succeeded and one that failed
C35_Witness ==
    /\ pc = "loop"
    /\ stats.urls_visited >= 1
    /\ stats.errors >= 1
    /\ Cardinality(visited_urls) = stats.urls_visited + stats.errors

\* C36: no candidate that scores below 0.1 is ever pushed onto the link
\* queue; so when the question has no keywords the scores of the links stay
\* 0.0, nothing but the seed is queued, and the session fetches the seed only.
C36_LowScoresNeverQueued ==
    /\ \A i \in DOMAIN enqueued : enqueued[i].score >= MinLinkScore
    /\ \A i \in DOMAIN link_queue : link_queue[i].score >= MinLinkScore
    /\ question_keywords = <<>> =>
          /\ \A c \in considered : c.score = 0
          /\ \A i \in DOMAIN enqueued : enqueued[i].url = start_url /\ i = 1
          /\ \A i \in DOMAIN fetch_calls : fetch_calls[i] = start_url /\ i = 1

\* a session without keywords is over: the seed was fetched, its links were
\* extracted and passed the filter, and none of them was queued
C36_Witness ==
    /\ pc = "done"
    /\ question_keywords = <<>>
    /\ Len(yielded) = 1
    /\ considered # {}
    /\ Len(enqueued) = 1
    /\ config.page_budget >= 2

\* C37: in every state of a session the link queue holds at most one
\* candidate per URL, and no candidate whose URL is in the visited set, also
\* when the same URL is linked from several pages with different anchor texts.
C37_QueueUrlsUniqueUnvisited ==
    /\ \A i, j \in DOMAIN link_queue :
          link_queue[i].url = link_queue[j].url => i = j
    /\ \A i \in DOMAIN link_queue : link_queue[i].url \notin visited_urls

\* C38: the diagnostics of every AssemblyResult are consistent:
\* blocks_final <= blocks_original, so blocks_filtered is never negative,
\* duplicates_removed is never negative, and char_count is the sum of
\* len(content) over the selected blocks.
C38_DiagnosticsConsistent ==
    apc = "done" =>
        /\ assembly_result.assembly_stats.blocks_final
              <= assembly_result.assembly_stats.blocks_original
        /\ assembly_result.assembly_stats.blocks_filtered >= 0
        /\ assembly_result.duplicates_removed >= 0
        /\ assembly_result.char_count
              = TotalChars(assembly_result.selected_blocks, store)

\* C39: in every PlanningResult each required capability has in
\* capability_scores the weight that made it required, a score above 0.3 or,
\* after the fallback, the fallback weight of that capability; so the
\* capability score the assembler gives a block of a required capability is
\* never 0.
C39_RequiredCapabilitiesScored ==
    ppc = "planned" =>
        \A i \in DOMAIN plan_result.required_capabilities :
            LET capability == plan_result.required_capabilities[i]
                score == plan_result.capability_scores[capability]
                fallback == get_fallback_capabilities(plan_result.question_type)
            IN  /\ \/ ScoreRequires(score)
                   \/ \E j \in DOMAIN fallback :
                         fallback[j] = Weight(capability, score)
                /\ \A content_type \in ContentTypes :
                      ContentToCapability(content_type) = capability =>
                          calculate_capability_score(content_type,
                                                     plan_result.capability_scores) # 0

\* the candidates a step pushes onto the queue
NewlyEnqueued == {enqueued'[k] : k \in (Len(enqueued) + 1)..Len(enqueued')}

\* C40: every URL fetched other than the seed was extracted from a page
\* that was fetched and yielded earlier in the session, at a depth one more
\* than that page's; depth_reached never exceeds the maximum depth the
\* navigator applies (settings.max_depth); and a page is yielded before any
\* of its links is queued.
C40_FetchedFromYieldedParent ==
    [][/\ (pc = "loop" /\ pc' = "fetch") =>
              /\ \E k \in DOMAIN enqueued : enqueued[k] = candidate'
              /\ candidate'.url # start_url =>
                     /\ \E j \in DOMAIN yielded : yielded[j] = candidate'.parent_url
                     /\ \E k \in DOMAIN enqueued :
                            /\ enqueued[k].url = candidate'.parent_url
                            /\ candidate'.depth = enqueued[k].depth + 1
       /\ (pc # "idle" /\ NewlyEnqueued # {}) =>
              /\ pc = "yield"
              /\ yielded # <<>>
              /\ yielded[Len(yielded)] = candidate.url
              /\ \A c \in NewlyEnqueued :
                     c.parent_url = candidate.url /\ c.depth = candidate.depth + 1
       /\ stats'.depth_reached <= settings'.max_depth]_vars

\* a page of depth 2 is being fetched: its parent, of depth 1, was yielded
C40_Witness ==
    /\ pc = "fetch"
    /\ candidate.depth = 2
    /\ \E j \in DOMAIN yielded : yielded[j] = candidate.parent_url
    /\ stats.depth_reached = 1

\* C11: robots.txt is read at most once per origin; when the read failed,
\* every URL of the origin that is checked is allowed; and the failure does
\* not end the crawl.
C11_RobotsReadOnceFailOpen ==
    /\ \A i, j \in DOMAIN robots_reads : i # j => robots_reads[i] # robots_reads[j]
    /\ \A url \in robots_asked :
          world.read[url.origin] # "parsed"
              => check_robots_txt(url, robots_cache).allowed
    /\ pc # "crashed"

====
